---- MODULE Spec2Model ----
(***************************************************************************)
(* WorldRec ingestion pipeline: the world-event parser                     *)
(* (app/core/world_event_parser.py), the save queue of the main window     *)
(* (app/gui/main_window.py) and the visit-history store                    *)
(* (app/db/database.py, app/db/history_repository.py).                     *)
(*                                                                         *)
(* Text values are TLA+ strings taken from a small universe; the string    *)
(* functions the code applies (strip, lower, basename, LIKE) are given by  *)
(* their values on that universe.  Python's None and SQL NULL are None.    *)
(* A datetime is a number of half seconds (a timestamp parsed from a log   *)
(* line is even, datetime.now() may be odd); the visited_at column holds   *)
(* the ISO text at second precision, here the number of whole seconds.     *)
(***************************************************************************)
EXTENDS Integers, Sequences, FiniteSets, TLC

VARIABLES
    db,          \* visit_histories: [rows: sequence of rows by id, seq: AUTOINCREMENT counter]
    initialized, \* Database.initialize() has run (main.py:40)
    now,         \* the wall clock datetime.now() reads
    probe,       \* a repository call made twice in a row: its arguments and results
    lastVisit,     \* MainWindow._last_visit_for_duration
    saveQueue,     \* MainWindow._save_queue
    durationQueue, \* MainWindow._duration_update_queue
    wakeEvent,     \* MainWindow._save_wake_event
    saver,         \* the batch saver thread: where it is and the lists it drained
    emitted,       \* the events the live watcher has passed to _on_log_event, in order
    pendingContext, \* WorldEventParser._pending_context
    parsed,         \* the last parse_line call: its line, the context before it, its result
    metadataLine,   \* the last metadata-only line, no metadata-carrying line parsed since
    closer,         \* the main thread in closeEvent: where it is and the lists it drained
    saveStopEvent,  \* MainWindow._save_stop_event
    watcher,        \* MainWindow.log_watcher: which instance, whether it runs, whose event came last
    storeCalls,     \* the repository calls of the flushes so far, in order
    errorSink,      \* the number of bridge.error.emit calls of the flushes
    durationPairs,  \* for each duration entry queued: the watchers of its two events
    logFiles,       \* the log directory: its output_log files, their mtime and lines
    tailer,         \* a LogWatcher: its loop thread, its fields and the caller of stop()
    callbacks,      \* the on_event and on_error calls of the LogWatcher so far, in order
    replayed        \* the replay parser's context and the lines fed to each parser

storeVars == <<db, initialized, now, probe>>
queueVars == <<lastVisit, saveQueue, durationQueue, wakeEvent, saver, emitted>>
parserVars == <<pendingContext, parsed, metadataLine>>
windowVars == <<closer, saveStopEvent, watcher, storeCalls, errorSink, durationPairs>>
watchVars == <<logFiles, tailer, callbacks, replayed>>
vars == <<db, initialized, now, probe, lastVisit, saveQueue, durationQueue, wakeEvent,
          saver, emitted, pendingContext, parsed, metadataLine, closer, saveStopEvent,
          watcher, storeCalls, errorSink, durationPairs,
          logFiles, tailer, callbacks, replayed>>

None == "<None>"

\* None where the value is otherwise an integer (stay_duration_seconds)
NoneInt == 0 - 999

\* None where the value is otherwise a record (_last_visit_for_duration)
NoVisit == [none |-> TRUE]

\* None where the value is otherwise a _PendingInstanceContext or a WorldVisitEvent
NoContext == [none |-> TRUE]
NoEvent == [none |-> TRUE]

----------------------------------------------------------------------------
(* Text helpers                                                            *)

\* str.strip() on the universe
Strip(s) ==
    CASE s = " n " -> "n"
      [] s = " "   -> ""
      [] OTHER     -> s

\* str.lower() / SQL LOWER() on the universe
Lower(s) ==
    CASE s = "Aa" -> "aa"
      [] s = "Bb" -> "bb"
      [] s = "Home" -> "home"
      [] s = "Error" -> "error"
      [] s = "Rapid" -> "rapid"
      [] s = "HOME" -> "home"
      [] OTHER    -> s

\* Python truthiness of a str | None value
Truthy(v) == v # None /\ v # ""

\* Python's `a or b` on str | None values
OrElse(a, b) == IF Truthy(a) THEN a ELSE b

\* SQL COALESCE(v, '')
Coalesce(v) == IF v = None THEN "" ELSE v

\* the text universe in SQLite's BINARY collation order
TextOrder ==
    << "", " ", " n ", "Aa", "Bb", "aa", "bb", "d/f1", "f1", "f2", "friends+",
       "hidden", "i1", "i1~hidden", "i1~hidden~nonce(n)", "n", "public", "wrld_1",
       "wrld_2", "~hidden" >>

Rank(s) == CHOOSE i \in 1..Len(TextOrder) : TextOrder[i] = s

\* lexicographic < on tuples of integers of the same length
RECURSIVE LexLess(_, _)
LexLess(a, b) ==
    IF a = <<>> THEN FALSE
    ELSE IF Head(a) # Head(b) THEN Head(a) < Head(b)
    ELSE LexLess(Tail(a), Tail(b))

----------------------------------------------------------------------------
(* HistoryRepository helpers                                               *)

NormalizeOptionalText(value) ==
    IF value = None THEN None
    ELSE IF Strip(value) = "" THEN None
    ELSE Strip(value)

NormalizeAccessTypeValue(value) ==
    LET normalized == Lower(Strip(IF Truthy(value) THEN value ELSE ""))
    IN  IF normalized = "" THEN None
        ELSE IF normalized = "hidden" THEN "friends+"
        ELSE normalized

NormalizeAccessType(value) ==
    LET normalized == NormalizeOptionalText(value)
    IN  IF normalized = None THEN None
        ELSE OrElse(NormalizeAccessTypeValue(normalized), normalized)

BasenameNormalized(value) ==
    LET normalized == NormalizeOptionalText(value)
    IN  IF normalized = None THEN None
        ELSE IF normalized = "d/f1" THEN "f1"
        ELSE normalized

\* datetime.isoformat(timespec="seconds"): the sub-second part is cut off
IsoFormat(t) == t \div 2

\* int((a - b).total_seconds()): truncation towards zero
TotalSecondsInt(a, b) ==
    IF a >= b THEN (a - b) \div 2 ELSE 0 - ((b - a) \div 2)

\* SQL LOWER(TRIM(world_name))
LowerTrim(s) == Lower(Strip(s))

----------------------------------------------------------------------------
(* The visit_histories table                                               *)

\* the columns of the unique index uq_visit_histories_event
EventKey(r) ==
    << r.visited_at, r.world_name, Coalesce(r.world_id), Coalesce(r.instance_id),
       Coalesce(r.source_log_file) >>

\* the table row a visit tuple is written as (memo and tags are always NULL)
VisitRow(v, id, nowIso) ==
    [ id |-> id,
      visited_at |-> IsoFormat(v.visited_at),
      world_name |-> v.world_name,
      world_id |-> v.world_id,
      instance_id |-> v.instance_id,
      instance_access_type |-> NormalizeAccessType(v.instance_access_type),
      instance_nonce |-> v.instance_nonce,
      instance_raw_tags |-> v.instance_raw_tags,
      stay_duration_seconds |-> v.stay_duration_seconds,
      memo |-> None,
      tags |-> None,
      source_log_file |-> v.source_log_file,
      created_at |-> nowIso,
      updated_at |-> nowIso ]

RowIds(rows) == { rows[i].id : i \in DOMAIN rows }

RowById(rows, id) == rows[CHOOSE i \in DOMAIN rows : rows[i].id = id]

MaxId(rows) ==
    IF rows = <<>> THEN 0
    ELSE CHOOSE m \in RowIds(rows) : \A x \in RowIds(rows) : x <= m

\* INTEGER PRIMARY KEY AUTOINCREMENT: one more than the largest id ever used
NextRowId(d) == (IF d.seq > MaxId(d.rows) THEN d.seq ELSE MaxId(d.rows)) + 1

\* the rows of `rows` other than `id` that hold the key k
KeyTaken(rows, k, id) ==
    \E i \in DOMAIN rows : rows[i].id # id /\ EventKey(rows[i]) = k

\* INSERT INTO visit_histories, one row per visit, on a table without the unique index
RECURSIVE InsertAll(_, _, _)
InsertAll(d, visits, nowIso) ==
    IF visits = <<>> THEN d
    ELSE LET id == NextRowId(d)
         IN  InsertAll([rows |-> Append(d.rows, VisitRow(Head(visits), id, nowIso)), seq |-> id],
                       Tail(visits), nowIso)

\* INSERT OR IGNORE INTO visit_histories: a row whose key is taken is dropped
RECURSIVE InsertOrIgnore(_, _, _, _)
InsertOrIgnore(d, visits, nowIso, changes) ==
    IF visits = <<>> THEN [db |-> d, ret |-> changes]
    ELSE LET id  == NextRowId(d)
             row == VisitRow(Head(visits), id, nowIso)
         IN  IF KeyTaken(d.rows, EventKey(row), id)
             THEN InsertOrIgnore(d, Tail(visits), nowIso, changes)
             ELSE InsertOrIgnore([rows |-> Append(d.rows, row), seq |-> id],
                                 Tail(visits), nowIso, changes + 1)

\* HistoryRepository.add_visits: the unconditional batch insert
AddVisits(d, visits, nowIso) ==
    [db |-> InsertAll(d, visits, nowIso), ret |-> Len(visits)]

\* a plain INSERT in place of INSERT OR IGNORE
AddVisitsUnconditionally(d, visits, nowIso) ==
    [db |-> InsertAll(d, visits, nowIso), ret |-> Len(visits)]

\* HistoryRepository.add_visits_if_missing
AddVisitsIfMissing(d, visits, nowIso) ==
    IF visits = <<>> THEN [db |-> d, ret |-> 0]
    ELSE InsertOrIgnore(d, visits, nowIso, 0)

\* the order in which a SELECT without ORDER BY returns the rows of one visited_at:
\* by rowid (index idx_visit_histories_visited_at) or by the columns of the
\* unique index uq_visit_histories_event, whichever index the planner takes
ScanKey(r, plan) ==
    IF plan = "rowid" THEN << r.id >>
    ELSE << Rank(r.world_name), Rank(Coalesce(r.world_id)), Rank(Coalesce(r.instance_id)),
            Rank(Coalesce(r.source_log_file)), r.id >>

RECURSIVE ScanOrder(_, _, _)
ScanOrder(rows, ids, plan) ==
    IF ids = {} THEN <<>>
    ELSE LET first == CHOOSE a \in ids : \A b \in ids \ {a} :
                          LexLess(ScanKey(RowById(rows, a), plan), ScanKey(RowById(rows, b), plan))
         IN  <<first>> \o ScanOrder(rows, ids \ {first}, plan)

\* UPDATE visit_histories SET ... WHERE id = ?
ReplaceRow(rows, id, new) ==
    [ i \in DOMAIN rows |-> IF rows[i].id = id THEN new ELSE rows[i] ]

\* the five metadata values of a backfill candidate, normalized (lines 232-236)
NewMetadata(v) ==
    [ world_id |-> NormalizeOptionalText(v.world_id),
      instance_id |-> NormalizeOptionalText(v.instance_id),
      instance_access_type |-> NormalizeAccessType(v.instance_access_type),
      instance_nonce |-> NormalizeOptionalText(v.instance_nonce),
      instance_raw_tags |-> NormalizeOptionalText(v.instance_raw_tags) ]

\* a row as backfill_visit_metadata would leave it if it reset the user's notes
BackfilledRowWithoutNotes(row, new, nowIso) ==
    [ row EXCEPT
        !.world_id = OrElse(NormalizeOptionalText(row.world_id), new.world_id),
        !.instance_id = OrElse(NormalizeOptionalText(row.instance_id), new.instance_id),
        !.instance_access_type =
            OrElse(NormalizeAccessType(row.instance_access_type), new.instance_access_type),
        !.instance_nonce = OrElse(NormalizeOptionalText(row.instance_nonce), new.instance_nonce),
        !.instance_raw_tags =
            OrElse(NormalizeOptionalText(row.instance_raw_tags), new.instance_raw_tags),
        !.memo = None,
        !.tags = None,
        !.updated_at = nowIso ]

\* the row as the UPDATE of backfill_visit_metadata would leave it (lines 262-303)
BackfilledRow(row, new, nowIso) ==
    [ row EXCEPT
        !.world_id = OrElse(NormalizeOptionalText(row.world_id), new.world_id),
        !.instance_id = OrElse(NormalizeOptionalText(row.instance_id), new.instance_id),
        !.instance_access_type =
            OrElse(NormalizeAccessType(row.instance_access_type), new.instance_access_type),
        !.instance_nonce = OrElse(NormalizeOptionalText(row.instance_nonce), new.instance_nonce),
        !.instance_raw_tags =
            OrElse(NormalizeOptionalText(row.instance_raw_tags), new.instance_raw_tags),
        !.updated_at = nowIso ]

\* lines 274-281: nothing to fill in this row
NothingToFill(row, next) ==
    /\ next.world_id = NormalizeOptionalText(row.world_id)
    /\ next.instance_id = NormalizeOptionalText(row.instance_id)
    /\ next.instance_access_type = NormalizeAccessType(row.instance_access_type)
    /\ next.instance_nonce = NormalizeOptionalText(row.instance_nonce)
    /\ next.instance_raw_tags = NormalizeOptionalText(row.instance_raw_tags)

\* a loop over target_rows that ends at the first IntegrityError
RECURSIVE BackfillTargetsUntilConflict(_, _, _, _, _)
BackfillTargetsUntilConflict(rows, targets, new, nowIso, updated) ==
    IF targets = <<>> THEN [rows |-> rows, updated |-> updated]
    ELSE LET row  == RowById(rows, Head(targets))
             next == BackfilledRow(row, new, nowIso)
         IN  IF NothingToFill(row, next)
             THEN BackfillTargetsUntilConflict(rows, Tail(targets), new, nowIso, updated)
             ELSE IF KeyTaken(rows, EventKey(next), row.id)
             THEN [rows |-> rows, updated |-> updated]
             ELSE BackfillTargetsUntilConflict(ReplaceRow(rows, row.id, next), Tail(targets),
                                               new, nowIso, updated + 1)

\* the loop over target_rows (lines 261-308); an UPDATE that would break the
\* unique index raises sqlite3.IntegrityError and the row is skipped
RECURSIVE BackfillTargets(_, _, _, _, _)
BackfillTargets(rows, targets, new, nowIso, updated) ==
    IF targets = <<>> THEN [rows |-> rows, updated |-> updated]
    ELSE LET row  == RowById(rows, Head(targets))
             next == BackfilledRow(row, new, nowIso)
         IN  IF NothingToFill(row, next)
             THEN BackfillTargets(rows, Tail(targets), new, nowIso, updated)
             ELSE IF KeyTaken(rows, EventKey(next), row.id)
             THEN BackfillTargets(rows, Tail(targets), new, nowIso, updated)
             ELSE BackfillTargets(ReplaceRow(rows, row.id, next), Tail(targets), new,
                                  nowIso, updated + 1)

\* the rows one candidate is applied to (lines 240-260)
TargetRows(rows, v, plan) ==
    LET matching == { rows[i].id : i \in { j \in DOMAIN rows :
                          /\ rows[j].visited_at = IsoFormat(v.visited_at)
                          /\ LowerTrim(rows[j].world_name) = LowerTrim(v.world_name) } }
        source   == BasenameNormalized(v.source_log_file)
        narrowed == { id \in matching :
                          BasenameNormalized(RowById(rows, id).source_log_file) = source }
    IN  IF Truthy(source) /\ narrowed # {}
        THEN ScanOrder(rows, narrowed, plan)
        ELSE ScanOrder(rows, matching, plan)

\* the loop over the candidates (lines 221-308)
RECURSIVE BackfillVisits(_, _, _, _, _)
BackfillVisits(rows, visits, plan, nowIso, updated) ==
    IF visits = <<>> THEN [rows |-> rows, updated |-> updated]
    ELSE LET new == NewMetadata(Head(visits))
         IN  IF \A f \in DOMAIN new : ~Truthy(new[f])
             THEN BackfillVisits(rows, Tail(visits), plan, nowIso, updated)
             ELSE LET done == BackfillTargets(rows, TargetRows(rows, Head(visits), plan),
                                              new, nowIso, updated)
                  IN  BackfillVisits(done.rows, Tail(visits), plan, nowIso, done.updated)

\* HistoryRepository.backfill_visit_metadata
BackfillVisitMetadata(d, visits, plan, nowIso) ==
    IF visits = <<>> THEN [db |-> d, ret |-> 0]
    ELSE LET done == BackfillVisits(d.rows, visits, plan, nowIso, 0)
         IN  [db |-> [d EXCEPT !.rows = done.rows], ret |-> done.updated]

\* the row one duration entry is written to: the highest id among the rows with
\* the entry's key (ORDER BY id DESC LIMIT 1), or 0 when the subquery is empty
DurationTarget(rows, u) ==
    LET ids == { rows[i].id : i \in { j \in DOMAIN rows :
                     EventKey(rows[j]) =
                         << IsoFormat(u.visited_at), u.world_name, Coalesce(u.world_id),
                            Coalesce(u.instance_id), Coalesce(u.source_log_file) >> } }
    IN  IF ids = {} THEN 0 ELSE CHOOSE m \in ids : \A x \in ids : x <= m

RECURSIVE UpdateDurations(_, _, _, _)
UpdateDurations(rows, updates, nowIso, changes) ==
    IF updates = <<>> THEN [rows |-> rows, changes |-> changes]
    ELSE LET u  == Head(updates)
             id == DurationTarget(rows, u)
         IN  IF u.stay_duration_seconds < 0 \/ id = 0
             THEN UpdateDurations(rows, Tail(updates), nowIso, changes)
             ELSE UpdateDurations(
                      ReplaceRow(rows, id,
                          [RowById(rows, id) EXCEPT
                              !.stay_duration_seconds = u.stay_duration_seconds,
                              !.updated_at = nowIso]),
                      Tail(updates), nowIso, changes + 1)

\* HistoryRepository.update_stay_durations_by_event
UpdateStayDurationsByEvent(d, updates, nowIso) ==
    LET done == UpdateDurations(d.rows, updates, nowIso, 0)
    IN  [db |-> [d EXCEPT !.rows = done.rows], ret |-> done.changes]

----------------------------------------------------------------------------
(* Database.initialize                                                     *)

\* an initialize() that deletes no row
DeduplicateNothing(rows) == rows

\* a deduplication that keeps the newest row of every key
DeduplicateKeepingNewest(rows) ==
    SelectSeq(rows, LAMBDA r :
        \A i \in DOMAIN rows : EventKey(rows[i]) = EventKey(r) => r.id >= rows[i].id)

\* DELETE ... WHERE id NOT IN (SELECT MIN(id) ... GROUP BY <the key columns>)
DeduplicateVisitRows(rows) ==
    SelectSeq(rows, LAMBDA r :
        \A i \in DOMAIN rows : EventKey(rows[i]) = EventKey(r) => r.id <= rows[i].id)

\* instr(instance_id, '~') > 0 on the universe
HasTilde(s) == s \in {"i1~hidden", "~hidden"}

\* substr(instance_id, instr(instance_id, '~'))
FromTilde(s) == IF HasTilde(s) THEN "~hidden" ELSE ""

\* the CASE expression of _backfill_instance_metadata (lines 144-157)
AccessTypeExpr(field) ==
    IF field # None /\ Lower(field) \in {"i1~hidden", "~hidden"} THEN "hidden" ELSE None

\* IS NULL OR TRIM(x) = ''
NullOrBlank(v) == v = None \/ Strip(v) = ""

\* Database._backfill_instance_metadata: three UPDATE statements in a row
BackfillInstanceMetadata(rows, nowIso) ==
    LET step1 == [ i \in DOMAIN rows |->
                     IF /\ NullOrBlank(rows[i].instance_raw_tags)
                        /\ rows[i].instance_id # None
                        /\ HasTilde(rows[i].instance_id)
                     THEN [rows[i] EXCEPT !.instance_raw_tags = FromTilde(rows[i].instance_id),
                                          !.updated_at = nowIso]
                     ELSE rows[i] ]
        step2 == [ i \in DOMAIN rows |->
                     IF /\ NullOrBlank(step1[i].instance_access_type)
                        /\ ~NullOrBlank(step1[i].instance_raw_tags)
                     THEN [step1[i] EXCEPT
                              !.instance_access_type = AccessTypeExpr(step1[i].instance_raw_tags),
                              !.updated_at = nowIso]
                     ELSE step1[i] ]
    IN  [ i \in DOMAIN rows |->
            IF /\ NullOrBlank(step2[i].instance_access_type)
               /\ ~NullOrBlank(step2[i].instance_id)
            THEN [step2[i] EXCEPT
                     !.instance_access_type = AccessTypeExpr(step2[i].instance_id),
                     !.updated_at = nowIso]
            ELSE step2[i] ]

\* Database.initialize: deduplicate, create the unique index, backfill
InitializeDb(d, nowIso) ==
    [d EXCEPT !.rows = BackfillInstanceMetadata(DeduplicateVisitRows(d.rows), nowIso)]

----------------------------------------------------------------------------
(* Inputs                                                                  *)

\* the store explored under any sequence of calls: rows held, visits per call
MaxRows == 2
MaxBatch == 1
\* a call made twice in a row: rows held before it, visits in its batch
MaxSeed == 3
MaxProbe == 2

Visit(t, name, wid, iid, acc, nonce, rawTags, stay, src) ==
    [ visited_at |-> t, world_name |-> name, world_id |-> wid, instance_id |-> iid,
      instance_access_type |-> acc, instance_nonce |-> nonce, instance_raw_tags |-> rawTags,
      stay_duration_seconds |-> stay, source_log_file |-> src ]

\* visits of one second and one world that differ in the key columns
KeyVisits ==
    { Visit(0, "Aa", wid, iid, None, None, None, NoneInt, "f1") :
        wid \in {None, "wrld_1", "wrld_2"}, iid \in {None, "i1"} }

\* a visit of the same second whose name differs in case only, with text that
\* normalization changes, read from the same file through another path
TextVisit == Visit(1, "aa", None, None, "hidden", " n ", None, NoneInt, "d/f1")

InputVisits == KeyVisits \cup {TextVisit}

\* the visits handed to the store when any sequence of calls is explored
StoreVisits ==
    { v \in KeyVisits : v.world_id # "wrld_2" /\ (v.world_id = None \/ v.instance_id = None) }
        \cup {TextVisit}

\* rows as an older version of the program left them: no unique index yet
LegacyVisits ==
    { Visit(0, "Aa", None, None, None, None, None, NoneInt, "f1"),
      Visit(0, "Aa", None, "i1~hidden", None, None, None, NoneInt, "f1") }

\* what the table held before initialize(): nothing, one row, the same event
\* twice, two events
LegacySeeds ==
    { <<>> } \cup { <<v>> : v \in LegacyVisits } \cup { <<v, w>> : v, w \in LegacyVisits }

DurationEntries ==
    { [ visited_at |-> v.visited_at, world_name |-> v.world_name, world_id |-> v.world_id,
        instance_id |-> v.instance_id, source_log_file |-> v.source_log_file,
        stay_duration_seconds |-> s ] : v \in StoreVisits, s \in {0 - 1, 7} }

Batches(S, n) == UNION { [1..k -> S] : k \in 0..n }

EmptyDb == [rows |-> <<>>, seq |-> 0]

NoProbe == [phase |-> "none"]

\* MainWindow.__init__, lines 223-228: nothing queued, the saver waiting
NoQueue ==
    /\ lastVisit = NoVisit
    /\ saveQueue = <<>>
    /\ durationQueue = <<>>
    /\ wakeEvent = FALSE
    /\ saver = [pc |-> "wait", batch |-> <<>>, stay_updates |-> <<>>]
    /\ emitted = <<>>

\* WorldEventParser.__init__, line 63: no pending context, nothing parsed yet
NoParser ==
    /\ pendingContext = NoContext
    /\ parsed = [none |-> TRUE]
    /\ metadataLine = [none |-> TRUE]

\* MainWindow.__init__: closeEvent not requested, the stop event clear, the first
\* watcher running, no store call made
NoWindow ==
    /\ closer = [pc |-> "idle", batch |-> <<>>, stay_updates |-> <<>>]
    /\ saveStopEvent = FALSE
    /\ watcher = [id |-> 1, running |-> TRUE, last |-> 0]
    /\ storeCalls = <<>>
    /\ errorSink = 0
    /\ durationPairs = <<>>

\* LogWatcher.__init__, lines 51-59: no thread, no active file, nothing read;
\* the log directory holds no file and nothing has been replayed
NoFiles ==
    [ written |-> 0,
      files |-> [f \in {"A", "B"} |-> [exists |-> FALSE, mtime |-> 0, lines |-> <<>>]] ]

IdleTailer ==
    [ pc |-> "test", stop |-> FALSE, active |-> None, fp |-> None, position |-> 0,
      line |-> <<>>, stopper |-> "none", raised |-> 0, opens |-> 0 ]

NoReplay == [context |-> NoContext, replay |-> <<>>, live |-> <<>>]

NoWatch ==
    /\ logFiles = NoFiles
    /\ tailer = IdleTailer
    /\ callbacks = <<>>
    /\ replayed = NoReplay

Plans == {"rowid", "event"}

----------------------------------------------------------------------------
(* The store under any sequence of repository calls                        *)

InitStore ==
    /\ db \in { InsertAll(EmptyDb, seed, 0) : seed \in LegacySeeds }
    /\ initialized = FALSE
    /\ now = 0
    /\ probe = NoProbe
    /\ NoQueue
    /\ NoParser
    /\ NoWindow
    /\ NoWatch

Initialize ==
    /\ ~initialized
    /\ db' = InitializeDb(db, IsoFormat(now))
    /\ initialized' = TRUE
    /\ UNCHANGED <<now, probe>>
    /\ UNCHANGED <<queueVars, parserVars, windowVars, watchVars>>

InsertIfMissing ==
    /\ initialized
    /\ \E visits \in Batches(StoreVisits, MaxBatch) :
          /\ Len(db.rows) + Len(visits) <= MaxRows
          /\ db' = AddVisitsIfMissing(db, visits, IsoFormat(now)).db
    /\ UNCHANGED <<initialized, now, probe>>
    /\ UNCHANGED <<queueVars, parserVars, windowVars, watchVars>>

BackfillMetadata ==
    /\ initialized
    /\ \E visits \in Batches(StoreVisits, MaxBatch), plan \in Plans :
          db' = BackfillVisitMetadata(db, visits, plan, IsoFormat(now)).db
    /\ UNCHANGED <<initialized, now, probe>>
    /\ UNCHANGED <<queueVars, parserVars, windowVars, watchVars>>

UpdateStayDurations ==
    /\ initialized
    /\ \E updates \in Batches(DurationEntries, MaxBatch) :
          db' = UpdateStayDurationsByEvent(db, updates, IsoFormat(now)).db
    /\ UNCHANGED <<initialized, now, probe>>
    /\ UNCHANGED <<queueVars, parserVars, windowVars, watchVars>>

NextStore == Initialize \/ InsertIfMissing \/ BackfillMetadata \/ UpdateStayDurations

SpecStore == InitStore /\ [][NextStore]_vars

\* C1: after initialize(), no two stored records share the key (visited_at,
\* world_name, world_id-or-empty, instance_id-or-empty, source_log_file-or-empty),
\* whatever insertIfMissing, backfillMetadata and updateDurations calls were made
UniqueEventKeys ==
    initialized =>
        \A i, j \in DOMAIN db.rows : EventKey(db.rows[i]) = EventKey(db.rows[j]) => i = j

\* a state reached after the deduplication of initialize() removed a row, with two
\* rows of one second, world and file next to each other and a duration written
StoreWitness ==
    /\ initialized
    /\ db.seq > Len(db.rows)
    /\ \E i, j \in DOMAIN db.rows :
          /\ i # j
          /\ db.rows[i].visited_at = db.rows[j].visited_at
          /\ db.rows[i].world_name = db.rows[j].world_name
          /\ db.rows[i].source_log_file = db.rows[j].source_log_file
          /\ db.rows[i].stay_duration_seconds # NoneInt

SameKeyIds(rows, r) == { rows[i].id : i \in { j \in DOMAIN rows : EventKey(rows[j]) = EventKey(r) } }

\* C35: records are deleted only by the deduplication pass of initialize(), which
\* for every key keeps exactly the record with the lowest id; insertIfMissing,
\* backfillMetadata and updateDurations never delete a record
DeletedOnlyByDeduplication ==
    [][ /\ initialized => RowIds(db.rows) \subseteq RowIds(db'.rows)
        /\ (~initialized /\ initialized') =>
              /\ RowIds(db'.rows) \subseteq RowIds(db.rows)
              /\ \A i \in DOMAIN db.rows :
                    \E kept \in SameKeyIds(db.rows, db.rows[i]) :
                       /\ SameKeyIds(db.rows, db.rows[i]) \cap RowIds(db'.rows) = {kept}
                       /\ \A id \in SameKeyIds(db.rows, db.rows[i]) : kept <= id ]_vars

\* initialize() removed the second of two rows of one key and kept the first;
\* a row was inserted afterwards
DeduplicationWitness ==
    /\ initialized
    /\ Len(db.rows) = 2
    /\ db.rows[1].id = 1
    /\ db.rows[2].id = 3

----------------------------------------------------------------------------
(* One repository call made twice in a row with the same arguments         *)

InitProbe ==
    /\ db = InitializeDb(EmptyDb, 0)
    /\ initialized = TRUE
    /\ now = 0
    /\ probe = [phase |-> "seed"]
    /\ NoQueue
    /\ NoParser
    /\ NoWindow
    /\ NoWatch

\* the store is filled by one-row calls of add_visits_if_missing
Seed ==
    /\ probe.phase = "seed"
    /\ Len(db.rows) < MaxSeed
    /\ \E v \in InputVisits : db' = AddVisitsIfMissing(db, <<v>>, IsoFormat(now)).db
    /\ UNCHANGED <<initialized, now, probe>>
    /\ UNCHANGED <<queueVars, parserVars, windowVars, watchVars>>

FirstInsert ==
    /\ probe.phase = "seed"
    /\ \E visits \in Batches(InputVisits, MaxProbe) :
          LET res == AddVisitsIfMissing(db, visits, IsoFormat(now))
          IN  /\ db' = res.db
              /\ probe' = [phase |-> "once", op |-> "insert", visits |-> visits,
                           plan |-> "rowid", before |-> db, first |-> res.ret]
    /\ UNCHANGED <<initialized, now>>
    /\ UNCHANGED <<queueVars, parserVars, windowVars, watchVars>>

SecondInsert ==
    /\ probe.phase = "once"
    /\ probe.op = "insert"
    /\ LET res == AddVisitsIfMissing(db, probe.visits, IsoFormat(now))
       IN  /\ db' = res.db
           /\ probe' = [phase |-> "twice", op |-> "insert", visits |-> probe.visits,
                        plan |-> probe.plan, before |-> probe.before, first |-> probe.first,
                        between |-> db, second |-> res.ret]
    /\ UNCHANGED <<initialized, now>>
    /\ UNCHANGED <<queueVars, parserVars, windowVars, watchVars>>

FirstBackfill ==
    /\ probe.phase = "seed"
    /\ \E visits \in Batches(InputVisits, MaxProbe), plan \in Plans :
          LET res == BackfillVisitMetadata(db, visits, plan, IsoFormat(now))
          IN  /\ db' = res.db
              /\ probe' = [phase |-> "once", op |-> "backfill", visits |-> visits,
                           plan |-> plan, before |-> db, first |-> res.ret]
    /\ UNCHANGED <<initialized, now>>
    /\ UNCHANGED <<queueVars, parserVars, windowVars, watchVars>>

SecondBackfill ==
    /\ probe.phase = "once"
    /\ probe.op = "backfill"
    /\ LET res == BackfillVisitMetadata(db, probe.visits, probe.plan, IsoFormat(now))
       IN  /\ db' = res.db
           /\ probe' = [phase |-> "twice", op |-> "backfill", visits |-> probe.visits,
                        plan |-> probe.plan, before |-> probe.before, first |-> probe.first,
                        between |-> db, second |-> res.ret]
    /\ UNCHANGED <<initialized, now>>
    /\ UNCHANGED <<queueVars, parserVars, windowVars, watchVars>>

NextInsertTwice == Seed \/ FirstInsert \/ SecondInsert

SpecInsertTwice == InitProbe /\ [][NextInsertTwice]_vars

NextBackfillTwice == Seed \/ FirstBackfill \/ SecondBackfill

SpecBackfillTwice == InitProbe /\ [][NextBackfillTwice]_vars

\* C2: add_visits_if_missing called twice in a row with the same batch: the second
\* call returns 0 and leaves the stored records as the first call left them
InsertIdempotent ==
    (probe.phase = "twice" /\ probe.op = "insert") =>
        (probe.second = 0 /\ db.rows = probe.between.rows)

\* a second call after a first call that inserted some rows of its batch and
\* ignored others
InsertTwiceWitness ==
    /\ probe.phase = "twice"
    /\ probe.op = "insert"
    /\ probe.first > 0
    /\ probe.first < Len(probe.visits)
    /\ Len(probe.before.rows) > 0

MetadataColumns ==
    {"world_id", "instance_id", "instance_access_type", "instance_nonce", "instance_raw_tags"}

\* C3: backfill_visit_metadata leaves every metadata column that was non-null
\* before the call with the value it had
BackfillKeepsNonNull ==
    (probe.phase \in {"once", "twice"} /\ probe.op = "backfill") =>
        \A i \in DOMAIN probe.before.rows : \A c \in MetadataColumns :
            probe.before.rows[i][c] # None =>
                RowById(db.rows, probe.before.rows[i].id)[c] = probe.before.rows[i][c]

\* C4: backfill_visit_metadata called twice in a row with the same batch: the
\* second call returns 0 and changes no record
BackfillIdempotent ==
    (probe.phase = "twice" /\ probe.op = "backfill") =>
        (probe.second = 0 /\ db.rows = probe.between.rows)

----------------------------------------------------------------------------
(* The live stream: _on_log_event and the batch saver                      *)

MaxEvents == 3
BatchMaxEvents == 2

\* the events the live watcher emits: two log timestamps 125 s apart, two
\* spellings of one world name, with and without a world id
LiveEvents ==
    { [ visited_at |-> t, world_name |-> w[1], world_id |-> w[2], instance_id |-> None,
        instance_access_type |-> None, instance_nonce |-> None, instance_raw_tags |-> None ] :
        t \in {20, 270}, w \in { <<"Aa", None>>, <<"Aa", "wrld_1">>, <<"aa", None>> } }

\* QueuedVisit(...) of _on_log_event (lines 418-427); stay_duration_seconds defaults to None
QueuedVisit(event, source_file) ==
    Visit(event.visited_at, event.world_name, event.world_id, event.instance_id,
          event.instance_access_type, event.instance_nonce, event.instance_raw_tags,
          NoneInt, source_file)

\* PendingDurationUpdate(...) of _on_log_event (lines 437-444)
PendingDurationUpdate(previous, stay) ==
    [ visited_at |-> previous.visited_at, world_name |-> previous.world_name,
      world_id |-> previous.world_id, instance_id |-> previous.instance_id,
      source_log_file |-> previous.source_log_file, stay_duration_seconds |-> stay ]

\* a duration update that names the new event in place of the previous one
DurationQueueForCurrent(queue, previous, current) ==
    IF previous = NoVisit THEN queue
    ELSE LET stay == TotalSecondsInt(current.visited_at, previous.visited_at)
         IN  IF stay >= 0 THEN Append(queue, PendingDurationUpdate(current, stay))
             ELSE queue

\* a duration update queued whatever the sign of the difference
DurationQueueAnySign(queue, previous, current) ==
    IF previous = NoVisit THEN queue
    ELSE Append(queue, PendingDurationUpdate(previous,
                           TotalSecondsInt(current.visited_at, previous.visited_at)))

\* the duration queue after an event (lines 430-445)
DurationQueueAfter(queue, previous, current) ==
    IF previous = NoVisit THEN queue
    ELSE LET stay == TotalSecondsInt(current.visited_at, previous.visited_at)
         IN  IF stay >= 0 THEN Append(queue, PendingDurationUpdate(previous, stay))
             ELSE queue

InitLive ==
    /\ db = InitializeDb(EmptyDb, 0)
    /\ initialized = TRUE
    /\ now = 0
    /\ probe = NoProbe
    /\ NoQueue
    /\ NoParser
    /\ NoWindow
    /\ NoWatch

\* MainWindow._on_log_event, called by the watcher thread
OnLogEvent ==
    /\ Len(emitted) < MaxEvents
    /\ \E event \in LiveEvents :
          LET current == QueuedVisit(event, "f1")
          IN  /\ durationQueue' = DurationQueueAfter(durationQueue, lastVisit, current)
              /\ lastVisit' = current
              /\ saveQueue' = Append(saveQueue, current)
              /\ wakeEvent' = (wakeEvent \/ Len(saveQueue) + 1 >= BatchMaxEvents)
              /\ emitted' = Append(emitted, current)
    /\ UNCHANGED <<saver>>
    /\ UNCHANGED <<storeVars, parserVars, windowVars, watchVars>>

\* the saver's wait on the wake event returns (set, or timed out) and clears it
SaverWake ==
    /\ saver.pc = "wait"
    /\ wakeEvent' = FALSE
    /\ saver' = [saver EXCEPT !.pc = "drain"]
    /\ UNCHANGED <<lastVisit, saveQueue, durationQueue, emitted>>
    /\ UNCHANGED <<storeVars, parserVars, windowVars, watchVars>>

\* _flush_save_queue, lines 530-541: both lists are taken under the lock
SaverDrain ==
    /\ saver.pc = "drain"
    /\ saver' = [ pc |-> IF saveQueue # <<>> THEN "backfill"
                         ELSE IF durationQueue # <<>> THEN "durations"
                         ELSE "wait",
                  batch |-> saveQueue, stay_updates |-> durationQueue ]
    /\ saveQueue' = <<>>
    /\ durationQueue' = <<>>
    /\ UNCHANGED <<lastVisit, wakeEvent, emitted>>
    /\ UNCHANGED <<storeVars, parserVars, windowVars, watchVars>>

\* _flush_save_queue, lines 547-549
SaverBackfill ==
    /\ saver.pc = "backfill"
    /\ \E plan \in Plans :
          db' = BackfillVisitMetadata(db, saver.batch, plan, IsoFormat(now)).db
    /\ saver' = [saver EXCEPT !.pc = "insert"]
    /\ UNCHANGED <<lastVisit, saveQueue, durationQueue, wakeEvent, emitted>>
    /\ UNCHANGED <<initialized, now, probe, parserVars, windowVars, watchVars>>

\* _flush_save_queue, lines 550-552
SaverInsert ==
    /\ saver.pc = "insert"
    /\ db' = AddVisitsIfMissing(db, saver.batch, IsoFormat(now)).db
    /\ saver' = [saver EXCEPT !.pc = IF saver.stay_updates # <<>> THEN "durations" ELSE "wait",
                              !.batch = <<>>]
    /\ UNCHANGED <<lastVisit, saveQueue, durationQueue, wakeEvent, emitted>>
    /\ UNCHANGED <<initialized, now, probe, parserVars, windowVars, watchVars>>

\* _flush_save_queue, lines 553-566
SaverDurations ==
    /\ saver.pc = "durations"
    /\ db' = UpdateStayDurationsByEvent(db, saver.stay_updates, IsoFormat(now)).db
    /\ saver' = [saver EXCEPT !.pc = "wait", !.stay_updates = <<>>]
    /\ UNCHANGED <<lastVisit, saveQueue, durationQueue, wakeEvent, emitted>>
    /\ UNCHANGED <<initialized, now, probe, parserVars, windowVars, watchVars>>

NextLive ==
    OnLogEvent \/ SaverWake \/ SaverDrain \/ SaverBackfill \/ SaverInsert \/ SaverDurations

SpecLive == InitLive /\ [][NextLive]_vars

\* every event passed to _on_log_event has gone through a complete flush
AllFlushed ==
    /\ saveQueue = <<>>
    /\ durationQueue = <<>>
    /\ saver.pc \in {"wait", "drain"}

RowsWithKey(v) ==
    { i \in DOMAIN db.rows :
        EventKey(db.rows[i]) =
            << IsoFormat(v.visited_at), v.world_name, Coalesce(v.world_id),
               Coalesce(v.instance_id), Coalesce(v.source_log_file) >> }

\* the last two events of the stream are d >= 0 seconds apart and both are flushed
LastTwoFlushed ==
    /\ Len(emitted) >= 2
    /\ AllFlushed
    /\ emitted[Len(emitted)].visited_at >= emitted[Len(emitted) - 1].visited_at

\* the record of the earlier event has the gap as its duration, the record of the
\* later one has none
DurationOnEarlierOnly ==
    LET e1 == emitted[Len(emitted) - 1]
        e2 == emitted[Len(emitted)]
    IN  /\ \E i \in RowsWithKey(e1) :
              db.rows[i].stay_duration_seconds = (e2.visited_at - e1.visited_at) \div 2
        /\ RowsWithKey(e2) # {}
        /\ \A i \in RowsWithKey(e2) : db.rows[i].stay_duration_seconds = NoneInt

LastEventIsNew ==
    \A k \in 1..(Len(emitted) - 1) :
        ~ ( /\ IsoFormat(emitted[k].visited_at) = IsoFormat(emitted[Len(emitted)].visited_at)
            /\ LowerTrim(emitted[k].world_name) = LowerTrim(emitted[Len(emitted)].world_name) )

----------------------------------------------------------------------------
(* WorldEventParser                                                        *)
(*                                                                         *)
(* A log line is given by what the parser's regular expressions find in    *)
(* it: ts is the timestamp at the start of the line (NoneInt if there is   *)
(* none), home says that _home_line_re matches, join that one of           *)
(* _room_patterns matches with a non-empty room text.  pre holds the       *)
(* tokens of the line outside the room text and room those of the room     *)
(* text: wid a world id, iid the instance id that follows it after a       *)
(* colon, field an instance id given as "instance_id=...", tags the        *)
(* free-standing ~tags, and, for the room text, label the words in it.     *)
(* A text the code searches is the sequence of its parts, left to right.   *)

ContextTtlSeconds == 45

InstanceAccessTypes ==
    {"friends+", "invite+", "public", "friends", "invite", "group", "hidden", "private",
     "offline"}

HomeWorldNames == {"home"}

LineText(line) == IF line.join THEN <<line.pre, line.room>> ELSE <<line.pre>>

RoomText(line) == <<line.room>>

\* the ~tags inside an instance id of the universe, in order
TagsOfInstanceId(iid) ==
    CASE iid = "i1~hidden~nonce(n)" -> <<"~hidden", "~nonce(n)">>
      [] iid = "i1~hidden"          -> <<"~hidden">>
      [] OTHER                      -> <<>>

\* the lowered name of a ~tag without its parameter
TagName(tag) ==
    CASE tag = "~hidden"   -> "hidden"
      [] tag = "~public"   -> "public"
      [] tag = "~nonce(n)" -> "nonce"
      [] OTHER             -> ""

\* the text between the parentheses of a ~tag
TagParameter(tag) == IF tag = "~nonce(n)" THEN "n" ELSE ""

\* "".join(tags)
RECURSIVE JoinTags(_)
JoinTags(tags) == IF tags = <<>> THEN "" ELSE Head(tags) \o JoinTags(Tail(tags))

\* _world_id_re.search(target)
RECURSIVE SearchWorldId(_)
SearchWorldId(target) ==
    IF target = <<>> THEN None
    ELSE IF Head(target).wid # None THEN Head(target).wid
    ELSE SearchWorldId(Tail(target))

\* _instance_id_patterns[0].search(target) and _instance_id_patterns[1].search(target)
RECURSIVE SearchInstanceId(_, _)
SearchInstanceId(pattern, target) ==
    IF target = <<>> THEN None
    ELSE LET found == IF pattern = 0 THEN Head(target).iid ELSE Head(target).field
         IN  IF found # None THEN found ELSE SearchInstanceId(pattern, Tail(target))

\* _instance_tag_re.findall(target)
RECURSIVE FindTags(_)
FindTags(target) ==
    IF target = <<>> THEN <<>>
    ELSE TagsOfInstanceId(Head(target).iid) \o Head(target).tags \o FindTags(Tail(target))

\* WorldEventParser._extract_world_id
ExtractWorldId(room_text, line) ==
    IF SearchWorldId(room_text) # None THEN SearchWorldId(room_text) ELSE SearchWorldId(line)

\* WorldEventParser._extract_instance_id: each pattern on the room text, then on the line
ExtractInstanceId(line, room_text) ==
    CASE SearchInstanceId(0, room_text) # None -> SearchInstanceId(0, room_text)
      [] SearchInstanceId(0, line) # None      -> SearchInstanceId(0, line)
      [] SearchInstanceId(1, room_text) # None -> SearchInstanceId(1, room_text)
      [] OTHER                                 -> SearchInstanceId(1, line)

\* WorldEventParser._extract_raw_tags, as the list of tags the result is joined from
RawTagList(instance_id, room_text, line) ==
    IF instance_id # None /\ TagsOfInstanceId(instance_id) # <<>>
    THEN TagsOfInstanceId(instance_id)
    ELSE FindTags(room_text) \o FindTags(line)

ExtractRawTags(instance_id, room_text, line) ==
    LET tags == RawTagList(instance_id, room_text, line)
    IN  IF tags = <<>> THEN None ELSE JoinTags(tags)

\* WorldEventParser._extract_instance_metadata
ExtractInstanceMetadata(instance_id, room_text, line) ==
    LET tags == RawTagList(instance_id, room_text, line)
        raw_tags == ExtractRawTags(instance_id, room_text, line)
        nonces == SelectSeq(tags, LAMBDA t : TagName(t) = "nonce")
        accesses == SelectSeq(tags, LAMBDA t : TagName(t) \in InstanceAccessTypes)
    IN  IF ~Truthy(raw_tags)
        THEN [instance_access_type |-> None, instance_nonce |-> None,
              instance_raw_tags |-> None]
        ELSE [instance_access_type |->
                  IF accesses = <<>> THEN None ELSE TagName(Head(accesses)),
              instance_nonce |-> IF nonces = <<>> THEN None ELSE TagParameter(Head(nonces)),
              instance_raw_tags |-> raw_tags]

\* the five metadata fields of lines 84-91 (taken from the room text first) and of
\* lines 123-129 (taken from the whole line)
ExtractFields(room_text, line) ==
    LET instance_id == ExtractInstanceId(line, room_text)
        metadata == ExtractInstanceMetadata(instance_id, room_text, line)
    IN  [ world_id |-> ExtractWorldId(room_text, line),
          instance_id |-> instance_id,
          instance_access_type |-> metadata.instance_access_type,
          instance_nonce |-> metadata.instance_nonce,
          instance_raw_tags |-> metadata.instance_raw_tags ]

JoinFields(line) == ExtractFields(RoomText(line), LineText(line))

LineFields(line) == ExtractFields(LineText(line), LineText(line))

\* the any([...]) of line 130
CarriesMetadata(line) ==
    LET found == LineFields(line)
    IN  \/ Truthy(found.world_id)
        \/ Truthy(found.instance_id)
        \/ Truthy(found.instance_access_type)
        \/ Truthy(found.instance_raw_tags)

\* `timestamp or datetime.now()`
LineTime(line, clock) == IF line.ts # NoneInt THEN line.ts ELSE clock

PendingInstanceContext(captured_at, found) ==
    [ captured_at |-> captured_at,
      world_id |-> found.world_id,
      instance_id |-> found.instance_id,
      instance_access_type |-> found.instance_access_type,
      instance_nonce |-> found.instance_nonce,
      instance_raw_tags |-> found.instance_raw_tags ]

\* a context update that keeps the fields of the previous context the line lacks
UpdatePendingContextKeeping(context, line, clock) ==
    IF ~CarriesMetadata(line) THEN context
    ELSE IF context = NoContext
         THEN PendingInstanceContext(LineTime(line, clock), LineFields(line))
    ELSE LET found == LineFields(line)
         IN  PendingInstanceContext(LineTime(line, clock),
                 [ world_id |-> OrElse(found.world_id, context.world_id),
                   instance_id |-> OrElse(found.instance_id, context.instance_id),
                   instance_access_type |->
                       OrElse(found.instance_access_type, context.instance_access_type),
                   instance_nonce |-> OrElse(found.instance_nonce, context.instance_nonce),
                   instance_raw_tags |->
                       OrElse(found.instance_raw_tags, context.instance_raw_tags) ])

\* a context update that room-join lines do not take part in
UpdatePendingContextNotOnJoin(context, line, clock) ==
    IF line.join \/ ~CarriesMetadata(line) THEN context
    ELSE PendingInstanceContext(LineTime(line, clock), LineFields(line))

\* WorldEventParser._update_pending_context: the new value of _pending_context
UpdatePendingContext(context, line, clock) ==
    IF ~CarriesMetadata(line) THEN context
    ELSE PendingInstanceContext(LineTime(line, clock), LineFields(line))

\* abs(total_seconds()) of two datetimes, compared with a number of seconds
AbsSecondsExceed(a, b, seconds) ==
    (IF a >= b THEN a - b ELSE b - a) > 2 * seconds

\* a merge without the time-to-live test of line 159
FillFromPendingContextNoTtl(context, visited_at, own) ==
    IF context = NoContext THEN own
    ELSE IF Truthy(own.world_id) /\ Truthy(context.world_id)
            /\ own.world_id # context.world_id THEN own
    ELSE [ world_id |-> OrElse(own.world_id, context.world_id),
           instance_id |-> OrElse(own.instance_id, context.instance_id),
           instance_access_type |->
               OrElse(own.instance_access_type, context.instance_access_type),
           instance_nonce |-> OrElse(own.instance_nonce, context.instance_nonce),
           instance_raw_tags |-> OrElse(own.instance_raw_tags, context.instance_raw_tags) ]

\* a merge whose time-to-live test takes the signed difference
FillFromPendingContextSigned(context, visited_at, own) ==
    IF context = NoContext THEN own
    ELSE IF visited_at - context.captured_at > 2 * ContextTtlSeconds THEN own
    ELSE IF Truthy(own.world_id) /\ Truthy(context.world_id)
            /\ own.world_id # context.world_id THEN own
    ELSE [ world_id |-> OrElse(own.world_id, context.world_id),
           instance_id |-> OrElse(own.instance_id, context.instance_id),
           instance_access_type |->
               OrElse(own.instance_access_type, context.instance_access_type),
           instance_nonce |-> OrElse(own.instance_nonce, context.instance_nonce),
           instance_raw_tags |-> OrElse(own.instance_raw_tags, context.instance_raw_tags) ]

\* WorldEventParser._fill_from_pending_context
FillFromPendingContext(context, visited_at, own) ==
    IF context = NoContext THEN own
    ELSE IF AbsSecondsExceed(visited_at, context.captured_at, ContextTtlSeconds) THEN own
    ELSE IF Truthy(own.world_id) /\ Truthy(context.world_id)
            /\ own.world_id # context.world_id THEN own
    ELSE [ world_id |-> OrElse(own.world_id, context.world_id),
           instance_id |-> OrElse(own.instance_id, context.instance_id),
           instance_access_type |->
               OrElse(own.instance_access_type, context.instance_access_type),
           instance_nonce |-> OrElse(own.instance_nonce, context.instance_nonce),
           instance_raw_tags |-> OrElse(own.instance_raw_tags, context.instance_raw_tags) ]

\* WorldEventParser._extract_world_name on the room texts of the universe: the words
\* of the room text if it has any, else the world id it consists of
ExtractWorldName(room, world_id) ==
    IF room.label # "" THEN room.label
    ELSE IF Truthy(world_id) /\ room.wid = world_id THEN world_id
    ELSE ""

\* blocked_tokens of _looks_like_world_name (lines 224-233)
BlockedTokens ==
    {"api", "http://", "https://", "exception", "error", "warning", "debug", "roommanager"}

\* `token in lowered` on the universe
ContainsText(lowered, token) ==
    <<lowered, token>> \in { <<"error", "error">>, <<"rapid", "api">> }

\* name.startswith("wrld_") on the universe
StartsWithWorldPrefix(name) == name \in {"wrld_1", "wrld_2"}

\* a name check without the length limits of line 221
LooksLikeWorldNameAnyLength(name) ==
    /\ name # ""
    /\ \A token \in BlockedTokens : ~ContainsText(Lower(name), token)
    /\ ~StartsWithWorldPrefix(name)

\* WorldEventParser._looks_like_world_name
LooksLikeWorldName(name) ==
    /\ name # ""
    /\ Len(name) >= 2
    /\ Len(name) <= 120
    /\ \A token \in BlockedTokens : ~ContainsText(Lower(name), token)
    /\ ~StartsWithWorldPrefix(name)

WorldVisitEvent(visited_at, world_name, fields) ==
    [ visited_at |-> visited_at,
      world_name |-> world_name,
      world_id |-> fields.world_id,
      instance_id |-> fields.instance_id,
      instance_access_type |-> fields.instance_access_type,
      instance_nonce |-> fields.instance_nonce,
      instance_raw_tags |-> fields.instance_raw_tags ]

\* parse_line without the home-line test of lines 66-67
ParseLineNoHomeCheck(context, line, clock) ==
    LET updated == UpdatePendingContext(context, line, clock)
        visited_at == LineTime(line, clock)
        fields == FillFromPendingContext(updated, visited_at, JoinFields(line))
        world_name == ExtractWorldName(line.room, fields.world_id)
    IN  IF ~line.join \/ ~LooksLikeWorldName(world_name)
           \/ LowerTrim(world_name) \in HomeWorldNames
        THEN [context |-> updated, event |-> NoEvent]
        ELSE [context |-> updated, event |-> WorldVisitEvent(visited_at, world_name, fields)]

\* parse_line with the home-line test made after the context update
ParseLineHomeAfterUpdate(context, line, clock) ==
    IF line.home
    THEN [context |-> UpdatePendingContext(context, line, clock), event |-> NoEvent]
    ELSE ParseLineNoHomeCheck(context, line, clock)

\* WorldEventParser.parse_line: the context it leaves and the event it returns
ParseLine(context, line, clock) ==
    IF line.home THEN [context |-> context, event |-> NoEvent]
    ELSE LET updated == UpdatePendingContext(context, line, clock)
             visited_at == LineTime(line, clock)
             fields == FillFromPendingContext(updated, visited_at, JoinFields(line))
             world_name == ExtractWorldName(line.room, fields.world_id)
         IN  IF ~line.join THEN [context |-> updated, event |-> NoEvent]
             ELSE IF ~LooksLikeWorldName(world_name)
                  THEN [context |-> updated, event |-> NoEvent]
             ELSE IF LowerTrim(world_name) \in HomeWorldNames
                  THEN [context |-> updated, event |-> NoEvent]
             ELSE [context |-> updated,
                   event |-> WorldVisitEvent(visited_at, world_name, fields)]

----------------------------------------------------------------------------
(* One parser instance fed lines                                           *)

Part(wid, iid, field, tags) == [wid |-> wid, iid |-> iid, field |-> field, tags |-> tags]

Room(label, wid, iid) ==
    [label |-> label, wid |-> wid, iid |-> iid, field |-> None, tags |-> <<>>]

EmptyPart == Part(None, None, None, <<>>)

NoRoom == Room("", None, None)

Line(ts, home, pre, join, room) ==
    [ts |-> ts, home |-> home, pre |-> pre, join |-> join, room |-> room]

\* what a line outside the room text can carry
MetadataParts ==
    { Part("wrld_1", "i1~hidden~nonce(n)", None, <<>>),
      Part("wrld_2", None, None, <<>>),
      Part(None, None, "i2", <<>>),
      Part(None, None, None, <<"~public">>) }

\* room texts: a name alone, a name with a world id, a home alias, a blocked
\* name, a world id alone
Rooms ==
    { Room("Aa", None, None), Room("Aa", "wrld_1", None), Room("Aa", "wrld_2", "i2"),
      Room("Home", None, None), Room("Error", None, None), Room("", "wrld_1", None) }

\* lines with metadata and no room-join phrase, stamped 0 s or unstamped
MetadataLines ==
    { Line(ts, FALSE, pre, FALSE, NoRoom) : ts \in {0, NoneInt}, pre \in MetadataParts }

\* room-join lines stamped 45 s and 46 s or unstamped; one has a world id
\* outside the room text as well
JoinLines ==
    { Line(ts, FALSE, EmptyPart, TRUE, room) : ts \in {90, 92, NoneInt}, room \in Rooms }
    \cup { Line(90, FALSE, Part("wrld_2", None, None, <<"~public">>), TRUE,
                Room("Aa", "wrld_1", None)) }

\* lines with a home-space phrase
HomeLines ==
    { Line(90, TRUE, pre, join, IF join THEN Room("Aa", "wrld_2", "i2") ELSE NoRoom) :
        pre \in {EmptyPart, Part("wrld_2", None, None, <<"~public">>)}, join \in BOOLEAN }

\* s repeated n times
RECURSIVE Repeated(_, _)
Repeated(s, n) ==
    IF n = 0 THEN ""
    ELSE IF n % 2 = 0 THEN LET half == Repeated(s, n \div 2) IN half \o half
    ELSE s \o Repeated(s, n - 1)

\* room-join lines whose room text is a name alone: of 1, 120 and 121 characters,
\* with a blocked token inside a word, a home alias in capitals
NameLines ==
    { Line(90, FALSE, EmptyPart, TRUE, Room(label, None, None)) :
        label \in {"X", Repeated("a", 120), Repeated("a", 121), "Rapid", "HOME"} }

Lines == MetadataLines \cup JoinLines \cup HomeLines \cup NameLines
             \cup { Line(90, FALSE, EmptyPart, FALSE, NoRoom) }

\* the values datetime.now() takes: 0.5 s, 45.5 s, 92.5 s
ClockTimes == {1, 91, 185}

InitParser ==
    /\ db = EmptyDb
    /\ initialized = FALSE
    /\ now = 1
    /\ probe = NoProbe
    /\ NoQueue
    /\ NoParser
    /\ NoWindow
    /\ NoWatch

\* parse_line(line) on the parser instance
FeedLine ==
    \E line \in Lines :
        LET result == ParseLine(pendingContext, line, now)
        IN  /\ pendingContext' = result.context
            /\ parsed' = [ line |-> line, time |-> LineTime(line, now),
                           before |-> pendingContext, metadataLine |-> metadataLine,
                           event |-> result.event ]
            /\ metadataLine' =
                   IF ~CarriesMetadata(line) THEN metadataLine
                   ELSE IF ~line.home /\ ~line.join
                        THEN [line |-> line, time |-> LineTime(line, now)]
                   ELSE [none |-> TRUE]
            /\ UNCHANGED <<storeVars, queueVars, windowVars, watchVars>>

\* time passes
ClockAdvance ==
    /\ \E t \in ClockTimes : t > now /\ now' = t
    /\ UNCHANGED <<db, initialized, probe>>
    /\ UNCHANGED <<queueVars, parserVars, windowVars, watchVars>>

NextParser == FeedLine \/ ClockAdvance

SpecParser == InitParser /\ [][NextParser]_vars

MetadataFields ==
    {"world_id", "instance_id", "instance_access_type", "instance_nonce",
     "instance_raw_tags"}

Parsed == parsed # [none |-> TRUE]

\* the last line parsed was a room-join line that gave an event, and a
\* metadata-only line was parsed before it with no metadata-carrying line between
JoinAfterMetadataLine ==
    /\ Parsed
    /\ ~parsed.line.home
    /\ parsed.line.join
    /\ parsed.event # NoEvent
    /\ parsed.metadataLine # [none |-> TRUE]

\* C6: when a metadata-only line is followed at most 45 s later by a room-join
\* line with the same world id or none, every metadata field of the event that the
\* join line does not itself provide equals the metadata line's value of it
ContextMerge ==
    JoinAfterMetadataLine =>
        LET own == JoinFields(parsed.line)
            given == LineFields(parsed.metadataLine.line)
            gap == parsed.time - parsed.metadataLine.time
        IN  ( /\ gap >= 0
              /\ gap <= 2 * ContextTtlSeconds
              /\ own.world_id \in {None, given.world_id} )
            => \A f \in MetadataFields : own[f] = None => parsed.event[f] = given[f]

\* C7: when a metadata-only line with world id W1 is followed by a room-join line
\* whose own world id W2 is another one, the event carries only what the join line
\* itself provides
WorldMismatchNoMerge ==
    JoinAfterMetadataLine =>
        LET own == JoinFields(parsed.line)
            given == LineFields(parsed.metadataLine.line)
        IN  ( /\ given.world_id # None
              /\ own.world_id # None
              /\ own.world_id # given.world_id )
            => \A f \in MetadataFields : parsed.event[f] = own[f]

\* a mismatching join line within the time to live, after a metadata line that has
\* fields the join line lacks
WorldMismatchWitness ==
    /\ JoinAfterMetadataLine
    /\ LineFields(parsed.metadataLine.line).world_id = "wrld_1"
    /\ LineFields(parsed.metadataLine.line).instance_nonce = "n"
    /\ parsed.event.world_id = "wrld_2"
    /\ parsed.event.instance_nonce = None
    /\ parsed.time - parsed.metadataLine.time = 2 * ContextTtlSeconds

\* C8: when a metadata-only line is followed more than 45 s later by a room-join
\* line, no metadata-carrying line between them, the event takes no field from the
\* pending context: it carries what the join line itself provides
ContextExpiry ==
    JoinAfterMetadataLine =>
        ( parsed.time - parsed.metadataLine.time > 2 * ContextTtlSeconds
          => \A f \in MetadataFields : parsed.event[f] = JoinFields(parsed.line)[f] )

\* a join line without metadata 46 s after a metadata line whose context is
\* still pending
ContextExpiryWitness ==
    /\ JoinAfterMetadataLine
    /\ ~CarriesMetadata(parsed.line)
    /\ parsed.time - parsed.metadataLine.time = 2 * ContextTtlSeconds + 2
    /\ parsed.before # NoContext
    /\ parsed.before.instance_id = "i1~hidden~nonce(n)"
    /\ parsed.event.instance_id = None

\* the last line parsed was a room-join line that gave an event while a
\* context was pending; the context its merge step saw is the one pending now
JoinWithContext ==
    /\ Parsed
    /\ ~parsed.line.home
    /\ parsed.line.join
    /\ parsed.event # NoEvent
    /\ pendingContext # NoContext

\* the context's world id is null or not in conflict with the join line's own
NoWorldConflict ==
    \/ pendingContext.world_id = None
    \/ JoinFields(parsed.line).world_id \in {None, pendingContext.world_id}

\* every field the join line lacks has the context's value in the event
FilledFromContext ==
    \A f \in MetadataFields :
        parsed.event[f] = OrElse(JoinFields(parsed.line)[f], pendingContext[f])

\* the event carries what the join line itself provides
NotFilledFromContext ==
    \A f \in MetadataFields : parsed.event[f] = JoinFields(parsed.line)[f]

\* C31 as stated: a pending context fills the event's null fields exactly when
\* visited_at - captured_at, taken with its sign, is at most 45 s and the world
\* ids do not conflict; a context captured after the event's time is eligible
ContextEligibleSigned ==
    JoinWithContext =>
        IF parsed.time - pendingContext.captured_at <= 2 * ContextTtlSeconds
           /\ NoWorldConflict
        THEN FilledFromContext
        ELSE NotFilledFromContext

\* C31 amended: a pending context fills the event's null fields exactly when
\* visited_at and captured_at are at most 45 s apart, whichever is later, and
\* the world ids do not conflict
ContextEligibleWithin ==
    JoinWithContext =>
        LET gap == parsed.time - pendingContext.captured_at
        IN  IF gap <= 2 * ContextTtlSeconds /\ 0 - gap <= 2 * ContextTtlSeconds
               /\ NoWorldConflict
            THEN FilledFromContext
            ELSE NotFilledFromContext

\* a join line without metadata stamped half a second before the time an
\* unstamped metadata line was captured: its event has the context's fields
ContextEligibleWitness ==
    /\ JoinWithContext
    /\ ~CarriesMetadata(parsed.line)
    /\ parsed.time - pendingContext.captured_at = 0 - 1
    /\ pendingContext.instance_id = "i1~hidden~nonce(n)"
    /\ parsed.event.instance_id = "i1~hidden~nonce(n)"
    /\ parsed.event.world_id = "wrld_1"

\* C32: after a non-home line in which a metadata field is found, the pending
\* context is exactly that line's five fields, captured at that line's time; a
\* non-home line without metadata leaves the context as it was; a room-join
\* line replaces the context too, before its own merge step
ContextReplacedWholesale ==
    (Parsed /\ ~parsed.line.home) =>
        /\ CarriesMetadata(parsed.line) =>
              /\ pendingContext # NoContext
              /\ pendingContext.captured_at = parsed.time
              /\ \A f \in MetadataFields : pendingContext[f] = LineFields(parsed.line)[f]
        /\ ~CarriesMetadata(parsed.line) => pendingContext = parsed.before
        /\ ( /\ parsed.line.join
             /\ parsed.event # NoEvent
             /\ CarriesMetadata(parsed.line)
             /\ NoWorldConflict ) => FilledFromContext

\* a room-join line with a world id alone, parsed while a context with an
\* instance id and a nonce was pending: the new context has lost both, and the
\* event did not get them
ContextReplacedWitness ==
    /\ Parsed
    /\ parsed.line.join
    /\ parsed.event # NoEvent
    /\ parsed.before # NoContext
    /\ parsed.before.instance_id = "i1~hidden~nonce(n)"
    /\ parsed.before.captured_at = parsed.time
    /\ pendingContext.world_id = "wrld_1"
    /\ pendingContext.instance_id = None
    /\ pendingContext.instance_nonce = None
    /\ parsed.event.instance_id = None

\* C9: parsing a line with a home-space phrase returns no event and leaves the
\* pending context exactly as it was, whatever else the line contains
HomeLineLeavesContext ==
    (Parsed /\ parsed.line.home) =>
        (parsed.event = NoEvent /\ pendingContext = parsed.before)

\* a home line with a room-join phrase parsed while a context is pending
HomeLineWitness ==
    /\ Parsed
    /\ parsed.line.home
    /\ parsed.line.join
    /\ parsed.before # NoContext
    /\ pendingContext = parsed.before

\* C10 as stated: a home line never gives an event; it leaves the pending context
\* untouched only if it carries no metadata, and a home line that carries metadata
\* updates the pending context from that line
HomeLineUpdatesContext ==
    (Parsed /\ parsed.line.home) =>
        /\ parsed.event = NoEvent
        /\ pendingContext =
               IF CarriesMetadata(parsed.line)
               THEN PendingInstanceContext(parsed.time, LineFields(parsed.line))
               ELSE parsed.before

\* C10 amended: a home line that carries metadata gives no event either and
\* the pending context stays what it was before the line
HomeLineMetadataIgnored ==
    (Parsed /\ parsed.line.home /\ CarriesMetadata(parsed.line)) =>
        /\ parsed.event = NoEvent
        /\ pendingContext = parsed.before

\* a home line with a world id and a tag parsed while the context of another
\* line is pending
HomeLineMetadataWitness ==
    /\ Parsed
    /\ parsed.line.home
    /\ CarriesMetadata(parsed.line)
    /\ LineFields(parsed.line).world_id = "wrld_2"
    /\ pendingContext # NoContext
    /\ pendingContext.world_id = "wrld_1"

\* C11: every event parse_line returns has a world name of 2 to 120 characters
\* that contains no blocked token whatever the letter case, does not start with
\* "wrld_" and is no home-world alias once trimmed and lowered
AcceptedWorldName ==
    (Parsed /\ parsed.event # NoEvent) =>
        LET name == parsed.event.world_name
        IN  /\ Len(name) >= 2
            /\ Len(name) <= 120
            /\ \A token \in BlockedTokens : ~ContainsText(Lower(name), token)
            /\ ~StartsWithWorldPrefix(name)
            /\ Lower(Strip(name)) \notin {"home"}

\* an event whose world name has exactly 120 characters
AcceptedWorldNameWitness ==
    /\ Parsed
    /\ parsed.event # NoEvent
    /\ Len(parsed.event.world_name) = 120

----------------------------------------------------------------------------
(* The main window: watcher, batch saver, settings change and closeEvent   *)

MaxWindowEvents == 3
MaxWatchers == 2

\* the k-th event the watchers pass to _on_log_event: 10 s after the one before
WindowEvent(k) ==
    [ visited_at |-> 20 * k, world_name |-> "Aa", world_id |-> None, instance_id |-> None,
      instance_access_type |-> None, instance_nonce |-> None, instance_raw_tags |-> None ]

\* str(self._active_file) of watcher w: each watcher has its own log directory
SourceFile(w) == IF w = 1 THEN "f1" ELSE "f2"

\* a flush that inserts before it backfills
FlushStepAfterInsertFirst(step, batch, stay_updates) ==
    CASE step = "drain" /\ batch # <<>>  -> "insert"
      [] step = "insert"                 -> "backfill"
      [] step \in {"drain", "backfill"} /\ stay_updates # <<>> /\ ~(step = "drain" /\ batch # <<>>)
                                         -> "durations"
      [] OTHER                           -> "return"

\* _flush_save_queue, lines 540-566: what follows the drain and each store call
FlushStepAfter(step, batch, stay_updates) ==
    CASE step = "drain" /\ batch # <<>>  -> "backfill"
      [] step = "backfill"               -> "insert"
      [] step \in {"drain", "insert"} /\ stay_updates # <<>> /\ ~(step = "drain" /\ batch # <<>>)
                                         -> "durations"
      [] OTHER                           -> "return"

\* a failure handler that puts the drained entries back
QueueAfterFailureRequeue(queue, drained) == drained \o queue

\* _flush_save_queue, lines 570-571: the except branch leaves the pending lists alone
QueueAfterFailure(queue, drained) == queue

Flushers == {"saver", "closer"}

Flusher(who) == IF who = "saver" THEN saver ELSE closer

\* a saver thread that ends after its first flush
AfterFlushSaverEnds(who) == IF who = "saver" THEN "stopped" ELSE "stop_watcher"

\* where a thread goes on when _flush_save_queue returns: the saver to its loop
\* test (line 459), closeEvent to log_watcher.stop() (line 895)
AfterFlush(who) == IF who = "saver" THEN "loop" ELSE "stop_watcher"

\* the thread `who` after the step `step` of its flush of the drained lists
FlusherAfter(who, step, batch, stay_updates) ==
    LET next == FlushStepAfter(step, batch, stay_updates)
    IN  IF next = "return"
        THEN [pc |-> AfterFlush(who), batch |-> <<>>, stay_updates |-> <<>>]
        ELSE [pc |-> next, batch |-> batch, stay_updates |-> stay_updates]

StoreCall(who, op, ok) ==
    [ who |-> who, op |-> op, ok |-> ok,
      batch |-> Flusher(who).batch, stay_updates |-> Flusher(who).stay_updates ]

InitWindow ==
    /\ db = InitializeDb(EmptyDb, 0)
    /\ initialized = TRUE
    /\ now = 0
    /\ probe = NoProbe
    /\ NoQueue
    /\ NoParser
    /\ NoWindow
    /\ NoWatch

\* the running watcher reads a room-join line and calls _on_log_event
WatcherEvent ==
    /\ watcher.running
    /\ Len(emitted) < MaxWindowEvents
    /\ LET current == QueuedVisit(WindowEvent(Len(emitted) + 1), SourceFile(watcher.id))
           queue == DurationQueueAfter(durationQueue, lastVisit, current)
       IN  /\ durationQueue' = queue
           /\ durationPairs' =
                  IF Len(queue) > Len(durationQueue)
                  THEN Append(durationPairs, [previous |-> watcher.last, current |-> watcher.id])
                  ELSE durationPairs
           /\ lastVisit' = current
           /\ saveQueue' = Append(saveQueue, current)
           /\ wakeEvent' = (wakeEvent \/ Len(saveQueue) + 1 >= BatchMaxEvents)
           /\ emitted' = Append(emitted, current)
    /\ watcher' = [watcher EXCEPT !.last = watcher.id]
    /\ UNCHANGED <<saver, closer, saveStopEvent, storeCalls, errorSink>>
    /\ UNCHANGED <<storeVars, parserVars, watchVars>>

\* MainWindow._apply_settings with another log directory (lines 857-865): the
\* watcher is stopped and a new one started
ApplySettings ==
    /\ closer.pc = "idle"
    /\ watcher.id < MaxWatchers
    /\ watcher' = [watcher EXCEPT !.id = watcher.id + 1, !.running = TRUE]
    /\ UNCHANGED <<closer, saveStopEvent, storeCalls, errorSink, durationPairs>>
    /\ UNCHANGED <<storeVars, queueVars, parserVars, watchVars>>

\* the thread `who` moves to the state `state`; the other thread stays
FlusherBecomes(who, state) ==
    /\ saver' = IF who = "saver" THEN state ELSE saver
    /\ closer' = IF who = "closer" THEN state ELSE closer

\* _start_batch_saver, line 459: the loop test after a flush
SaverLoopTest ==
    /\ saver.pc = "loop"
    /\ saver' = [saver EXCEPT !.pc = IF saveStopEvent THEN "stopped" ELSE "wait"]
    /\ UNCHANGED <<lastVisit, saveQueue, durationQueue, wakeEvent, emitted>>
    /\ UNCHANGED <<storeVars, parserVars, windowVars, watchVars>>

\* _start_batch_saver, lines 460-461: the wait returns (set, or timed out) and
\* the wake event is cleared
SaverWaitReturns ==
    /\ saver.pc = "wait"
    /\ wakeEvent' = FALSE
    /\ saver' = [saver EXCEPT !.pc = "check"]
    /\ UNCHANGED <<lastVisit, saveQueue, durationQueue, emitted>>
    /\ UNCHANGED <<storeVars, parserVars, windowVars, watchVars>>

\* _start_batch_saver, lines 462-464: break on the stop event, flush otherwise
SaverStopTest ==
    /\ saver.pc = "check"
    /\ saver' = [saver EXCEPT !.pc = IF saveStopEvent THEN "stopped" ELSE "drain"]
    /\ UNCHANGED <<lastVisit, saveQueue, durationQueue, wakeEvent, emitted>>
    /\ UNCHANGED <<storeVars, parserVars, windowVars, watchVars>>

\* closeEvent, line 892
CloseSetStop ==
    /\ closer.pc = "idle"
    /\ saveStopEvent' = TRUE
    /\ closer' = [closer EXCEPT !.pc = "set_wake"]
    /\ UNCHANGED <<watcher, storeCalls, errorSink, durationPairs>>
    /\ UNCHANGED <<storeVars, queueVars, parserVars, watchVars>>

\* closeEvent, lines 893-894: the wake event is set and the final flush begins
CloseSetWake ==
    /\ closer.pc = "set_wake"
    /\ wakeEvent' = TRUE
    /\ closer' = [closer EXCEPT !.pc = "drain"]
    /\ UNCHANGED <<lastVisit, saveQueue, durationQueue, saver, emitted>>
    /\ UNCHANGED <<saveStopEvent, watcher, storeCalls, errorSink, durationPairs>>
    /\ UNCHANGED <<storeVars, parserVars, watchVars>>

\* closeEvent, line 895: log_watcher.stop(), then the window is closed
CloseStopWatcher ==
    /\ closer.pc = "stop_watcher"
    /\ watcher' = [watcher EXCEPT !.running = FALSE]
    /\ closer' = [closer EXCEPT !.pc = "closed"]
    /\ UNCHANGED <<saveStopEvent, storeCalls, errorSink, durationPairs>>
    /\ UNCHANGED <<storeVars, queueVars, parserVars, watchVars>>

\* a drain that copies a pending list and leaves it in place
QueueAfterDrainKept(queue) == queue

\* _flush_save_queue, lines 533-538: the pending list is replaced by a new list
QueueAfterDrain(queue) == <<>>

\* _flush_save_queue, lines 530-541: both lists are taken under the lock
FlushDrain(who) ==
    /\ Flusher(who).pc = "drain"
    /\ FlusherBecomes(who, FlusherAfter(who, "drain", saveQueue, durationQueue))
    /\ saveQueue' = QueueAfterDrain(saveQueue)
    /\ durationQueue' = QueueAfterDrain(durationQueue)
    /\ UNCHANGED <<lastVisit, wakeEvent, emitted>>
    /\ UNCHANGED <<saveStopEvent, watcher, storeCalls, errorSink, durationPairs>>
    /\ UNCHANGED <<storeVars, parserVars, watchVars>>

\* a store call of the flush returns normally
FlushStepDone(who, op) ==
    /\ storeCalls' = Append(storeCalls, StoreCall(who, op, TRUE))
    /\ FlusherBecomes(who, FlusherAfter(who, op, Flusher(who).batch, Flusher(who).stay_updates))
    /\ UNCHANGED <<lastVisit, saveQueue, durationQueue, wakeEvent, emitted>>
    /\ UNCHANGED <<saveStopEvent, watcher, errorSink, durationPairs>>
    /\ UNCHANGED <<initialized, now, probe, parserVars, watchVars>>

\* _flush_save_queue, lines 547-549
FlushBackfill(who) ==
    /\ Flusher(who).pc = "backfill"
    /\ \E plan \in Plans :
          db' = BackfillVisitMetadata(db, Flusher(who).batch, plan, IsoFormat(now)).db
    /\ FlushStepDone(who, "backfill")

\* _flush_save_queue, lines 550-552
FlushInsert(who) ==
    /\ Flusher(who).pc = "insert"
    /\ db' = AddVisitsIfMissing(db, Flusher(who).batch, IsoFormat(now)).db
    /\ FlushStepDone(who, "insert")

\* _flush_save_queue, lines 553-566
FlushDurations(who) ==
    /\ Flusher(who).pc = "durations"
    /\ db' = UpdateStayDurationsByEvent(db, Flusher(who).stay_updates, IsoFormat(now)).db
    /\ FlushStepDone(who, "durations")

\* _flush_save_queue, lines 570-571: a store call raises (the database is locked,
\* the disk is full); its transaction is not committed, the error is emitted
\* and the flush returns
FlushStoreFails(who) ==
    /\ Flusher(who).pc \in {"backfill", "insert", "durations"}
    /\ storeCalls' = Append(storeCalls, StoreCall(who, Flusher(who).pc, FALSE))
    /\ errorSink' = errorSink + 1
    /\ FlusherBecomes(who, [pc |-> AfterFlush(who), batch |-> <<>>, stay_updates |-> <<>>])
    /\ saveQueue' = QueueAfterFailure(saveQueue, Flusher(who).batch)
    /\ durationQueue' = QueueAfterFailure(durationQueue, Flusher(who).stay_updates)
    /\ UNCHANGED <<lastVisit, wakeEvent, emitted>>
    /\ UNCHANGED <<saveStopEvent, watcher, durationPairs>>
    /\ UNCHANGED <<storeVars, parserVars, watchVars>>

NextWindow ==
    \/ WatcherEvent
    \/ ApplySettings
    \/ SaverLoopTest
    \/ SaverWaitReturns
    \/ SaverStopTest
    \/ CloseSetStop
    \/ CloseSetWake
    \/ CloseStopWatcher
    \/ \E who \in Flushers : FlushDrain(who)
    \/ \E who \in Flushers : FlushBackfill(who)
    \/ \E who \in Flushers : FlushInsert(who)
    \/ \E who \in Flushers : FlushDurations(who)
    \/ \E who \in Flushers : FlushStoreFails(who)

SpecWindow == InitWindow /\ [][NextWindow]_vars

\* two store calls made by the same run of _flush_save_queue
SameFlush(a, b) ==
    a.who = b.who /\ a.batch = b.batch /\ a.stay_updates = b.stay_updates

StepRank(op) == CASE op = "backfill" -> 1 [] op = "insert" -> 2 [] OTHER -> 3

\* C12: within every flush the store is called in the order backfillMetadata(batch),
\* insertIfMissing(batch), updateDurations(duration batch): the insert follows the
\* returned backfill of the same flush, the duration update follows the returned
\* insert whenever the flush has a batch, and no call of a flush comes before a
\* call of an earlier step of that flush
FlushCallOrder ==
    \A j \in DOMAIN storeCalls :
        LET call == storeCalls[j]
        IN  /\ call.op = "backfill" =>
                   call.batch # <<>> /\ \A i \in 1..(j - 1) : ~SameFlush(storeCalls[i], call)
            /\ call.op = "insert" =>
                   \E i \in 1..(j - 1) :
                       /\ SameFlush(storeCalls[i], call)
                       /\ storeCalls[i].op = "backfill" /\ storeCalls[i].ok
            /\ call.op = "durations" =>
                   /\ call.stay_updates # <<>>
                   /\ call.batch # <<>> =>
                          \E i \in 1..(j - 1) :
                              /\ SameFlush(storeCalls[i], call)
                              /\ storeCalls[i].op = "insert" /\ storeCalls[i].ok
            /\ \A i \in 1..(j - 1) :
                   SameFlush(storeCalls[i], call) =>
                       StepRank(storeCalls[i].op) < StepRank(call.op)

\* one flush has made all three store calls
FlushCallOrderWitness ==
    \E i, j, k \in DOMAIN storeCalls :
        /\ i < j /\ j < k
        /\ SameFlush(storeCalls[i], storeCalls[j]) /\ SameFlush(storeCalls[j], storeCalls[k])
        /\ storeCalls[i].op = "backfill" /\ storeCalls[j].op = "insert"
        /\ storeCalls[k].op = "durations" /\ storeCalls[k].ok

Range(seq) == { seq[i] : i \in DOMAIN seq }

FailedCalls == { i \in DOMAIN storeCalls : ~storeCalls[i].ok }

\* C13: a store call that fails during a flush is reported through the error sink,
\* no later step of that flush is executed, and none of the events and duration
\* entries the flush drained is put back: they are in neither pending list and
\* no other flush hands them to the store
FailedFlushDropped ==
    /\ errorSink = Cardinality(FailedCalls)
    /\ \A i \in FailedCalls :
          LET failed == storeCalls[i]
          IN  /\ \A j \in DOMAIN storeCalls : j > i => ~SameFlush(storeCalls[j], failed)
              /\ \A j \in DOMAIN storeCalls :
                    ~SameFlush(storeCalls[j], failed) =>
                        /\ Range(storeCalls[j].batch) \cap Range(failed.batch) = {}
                        /\ Range(storeCalls[j].stay_updates) \cap Range(failed.stay_updates) = {}
              /\ Range(saveQueue) \cap Range(failed.batch) = {}
              /\ Range(durationQueue) \cap Range(failed.stay_updates) = {}
              /\ \A who \in Flushers :
                    /\ Range(Flusher(who).batch) \cap Range(failed.batch) = {}
                    /\ Range(Flusher(who).stay_updates) \cap Range(failed.stay_updates) = {}

\* the insert of a flush with a duration batch failed, and a later flush of
\* other events went through
FailedFlushWitness ==
    \E i, j \in DOMAIN storeCalls :
        /\ i < j
        /\ ~storeCalls[i].ok /\ storeCalls[i].op = "insert" /\ storeCalls[i].stay_updates # <<>>
        /\ storeCalls[j].ok /\ storeCalls[j].op = "insert"

\* the event was in the batch of an insert call that returned
HandedToStore(event) ==
    \E i \in DOMAIN storeCalls :
        storeCalls[i].op = "insert" /\ storeCalls[i].ok /\ event \in Range(storeCalls[i].batch)

\* C14: when closeEvent has completed and no store call has failed, every event
\* passed to _on_log_event has been handed to the store by some flush and the
\* pending-insert list is empty
NoEventLostOnShutdown ==
    (closer.pc = "closed" /\ errorSink = 0) =>
        /\ \A i \in DOMAIN emitted : HandedToStore(emitted[i])
        /\ saveQueue = <<>>

\* closeEvent has completed after a final flush that handed an event to the store
ShutdownFlushWitness ==
    /\ closer.pc = "closed"
    /\ \E i \in DOMAIN storeCalls :
          storeCalls[i].who = "closer" /\ storeCalls[i].op = "insert" /\ storeCalls[i].ok

\* the thread has drained the pending lists and has not returned from the flush
InFlight(who) == Flusher(who).pc \in {"backfill", "insert", "durations"}

\* C15: at most one flush is in flight at any time, the final flush of closeEvent
\* and a flush of the background saver included
OneFlushInFlight == ~(InFlight("saver") /\ InFlight("closer"))

\* the final flush of closeEvent is in flight
FinalFlushWitness == InFlight("closer")

\* C16: every duration-update entry pairs an event with the preceding event of
\* the same watcher instance
DurationWithinWatcher ==
    \A i \in DOMAIN durationPairs : durationPairs[i].previous = durationPairs[i].current

\* the replacement watcher has delivered two events
ReplacedWatcherWitness ==
    \E i \in DOMAIN durationPairs :
        durationPairs[i].previous = 2 /\ durationPairs[i].current = 2

----------------------------------------------------------------------------
(* LogWatcher: the watch loop, the active file, rotation, errors, stop()   *)
(* Sizes and offsets are counted in lines; a line is named <<file, n>>, n  *)
(* the number of the write that appended it.                               *)

LogFileNames == {"A", "B"}
MaxWrites == 4
MaxErrors == 1
BootstrapLines == 1

\* _find_latest_log_file, lines 180-188
FindLatestLogFile(dir) ==
    LET present == { f \in LogFileNames : dir.files[f].exists }
    IN  IF present = {} THEN None
        ELSE CHOOSE f \in present :
                 \A g \in present : dir.files[g].mtime <= dir.files[f].mtime

FileSize(dir, f) == Len(dir.files[f].lines)

\* a watcher that reads every file it opens from the beginning
StartOffsetZero(size) == 0

\* _open_active_file, line 140: max(0, size - self._bootstrap_bytes)
StartOffset(size) == IF size > BootstrapLines THEN size - BootstrapLines ELSE 0

\* _open_active_file, lines 136-143
OpenActiveFile(t, dir, f) ==
    [t EXCEPT !.active = f, !.fp = f, !.position = StartOffset(FileSize(dir, f)),
              !.opens = @ + 1]

\* a refresh that does not look at the size of the file it keeps open
RefreshWithoutTruncation(t, dir) ==
    LET latest == FindLatestLogFile(dir)
    IN  IF latest = None THEN [t EXCEPT !.fp = None, !.active = None, !.position = 0]
        ELSE IF t.active # latest THEN OpenActiveFile(t, dir, latest)
        ELSE IF t.fp = None THEN OpenActiveFile(t, dir, latest)
        ELSE t

\* _refresh_active_log_file, lines 111-134
RefreshActiveLogFile(t, dir) ==
    LET latest == FindLatestLogFile(dir)
    IN  IF latest = None THEN [t EXCEPT !.fp = None, !.active = None, !.position = 0]
        ELSE IF t.active # latest THEN OpenActiveFile(t, dir, latest)
        ELSE IF t.fp = None THEN OpenActiveFile(t, dir, latest)
        ELSE IF FileSize(dir, latest) < t.position THEN [t EXCEPT !.position = 0]
        ELSE t

\* a loop whose thread dies of the error
PcAfterUncaughtError == "dead"

\* _watch_loop, lines 97-104: except Exception, then the wait of the cycle
PcAfterCycleError == "wait"

EventCallback(t) ==
    [ kind |-> "event", file |-> t.active, line |-> t.line, handle |-> t.opens,
      stopped |-> t.stopper = "returned" ]

ErrorCallback(t) ==
    [ kind |-> "error", file |-> None, line |-> <<>>, handle |-> t.opens,
      stopped |-> t.stopper = "returned" ]

\* the log directory when the watcher starts: empty, or file A with k lines
InitialDir(k) ==
    [ written |-> k,
      files |-> [f \in LogFileNames |->
                    IF f = "A" /\ k > 0
                    THEN [exists |-> TRUE, mtime |-> k, lines |-> [n \in 1..k |-> <<"A", n>>]]
                    ELSE [exists |-> FALSE, mtime |-> 0, lines |-> <<>>]] ]

InitWatcher ==
    /\ db = EmptyDb
    /\ initialized = FALSE
    /\ now = 0
    /\ probe = NoProbe
    /\ NoQueue
    /\ NoParser
    /\ NoWindow
    /\ logFiles \in { InitialDir(k) : k \in 0..2 }
    /\ tailer = IdleTailer
    /\ callbacks = <<>>
    /\ replayed = NoReplay

\* the application appends a line to one of its log files
WriteLine(f) ==
    /\ logFiles.files[f].exists
    /\ logFiles.written < MaxWrites
    /\ logFiles' =
           [ written |-> logFiles.written + 1,
             files |-> [logFiles.files EXCEPT
                            ![f].lines = Append(@, <<f, logFiles.written + 1>>),
                            ![f].mtime = logFiles.written + 1] ]
    /\ UNCHANGED <<tailer, callbacks, replayed>>
    /\ UNCHANGED <<storeVars, queueVars, parserVars, windowVars>>

\* the application starts a new, empty log file, or empties one in place
CreateFile(f) ==
    /\ logFiles.written < MaxWrites
    /\ logFiles' =
           [ written |-> logFiles.written + 1,
             files |-> [logFiles.files EXCEPT
                            ![f] = [exists |-> TRUE, mtime |-> logFiles.written + 1,
                                    lines |-> <<>>]] ]
    /\ UNCHANGED <<tailer, callbacks, replayed>>
    /\ UNCHANGED <<storeVars, queueVars, parserVars, windowVars>>

\* _watch_loop, line 93 and the finally of lines 105-109
LoopTest ==
    /\ tailer.pc = "test"
    /\ tailer' = IF tailer.stop
                 THEN [tailer EXCEPT !.pc = "done", !.fp = None]
                 ELSE [tailer EXCEPT !.pc = "refresh"]
    /\ UNCHANGED <<logFiles, callbacks, replayed>>
    /\ UNCHANGED <<storeVars, queueVars, parserVars, windowVars>>

\* _watch_loop, line 95, and the entry test of _read_available_lines (146-147)
Refresh ==
    /\ tailer.pc = "refresh"
    /\ LET t == RefreshActiveLogFile(tailer, logFiles)
       IN  tailer' = [t EXCEPT !.pc = IF t.fp = None \/ t.active = None THEN "wait" ELSE "read"]
    /\ UNCHANGED <<logFiles, callbacks, replayed>>
    /\ UNCHANGED <<storeVars, queueVars, parserVars, windowVars>>

\* _refresh_active_log_file raises: listing the directory or stat fails and the
\* fields stay, or open() fails after _open_active_file closed the old handle
\* and set the active file (lines 137-139)
RefreshFails ==
    /\ tailer.pc = "refresh"
    /\ tailer.raised < MaxErrors
    /\ \E openFailed \in BOOLEAN :
          LET latest == FindLatestLogFile(logFiles)
              t == IF openFailed THEN [tailer EXCEPT !.fp = None, !.active = latest] ELSE tailer
          IN  /\ openFailed => latest # None /\ (tailer.active # latest \/ tailer.fp = None)
              /\ tailer' = [t EXCEPT !.pc = PcAfterCycleError, !.raised = @ + 1]
    /\ callbacks' = Append(callbacks, ErrorCallback(tailer))
    /\ UNCHANGED <<logFiles, replayed>>
    /\ UNCHANGED <<storeVars, queueVars, parserVars, windowVars>>

\* _read_available_lines, lines 149-153: readline and tell; at the end of the
\* file the cycle is over; a handle that stop() closed meanwhile raises
ReadLine ==
    /\ tailer.pc = "read"
    /\ IF tailer.fp = None
       THEN /\ tailer' = [tailer EXCEPT !.pc = PcAfterCycleError, !.raised = @ + 1]
            /\ callbacks' = Append(callbacks, ErrorCallback(tailer))
       ELSE /\ callbacks' = callbacks
            /\ LET lines == logFiles.files[tailer.fp].lines
               IN  tailer' =
                       IF tailer.position < Len(lines)
                       THEN [tailer EXCEPT !.pc = "deliver", !.position = @ + 1,
                                            !.line = lines[tailer.position + 1]]
                       ELSE [tailer EXCEPT !.pc = "wait"]
    /\ UNCHANGED <<logFiles, replayed>>
    /\ UNCHANGED <<storeVars, queueVars, parserVars, windowVars>>

\* _read_available_lines, lines 154-156: the line is parsed and its event passed
\* to on_event
Deliver ==
    /\ tailer.pc = "deliver"
    /\ callbacks' = Append(callbacks, EventCallback(tailer))
    /\ tailer' = [tailer EXCEPT !.pc = "read", !.line = <<>>]
    /\ UNCHANGED <<logFiles, replayed>>
    /\ UNCHANGED <<storeVars, queueVars, parserVars, windowVars>>

\* readline, parse_line or on_event raises
ReadFails ==
    /\ tailer.pc \in {"read", "deliver"}
    /\ tailer.fp # None
    /\ tailer.raised < MaxErrors
    /\ tailer' = [tailer EXCEPT !.pc = PcAfterCycleError, !.raised = @ + 1, !.line = <<>>]
    /\ callbacks' = Append(callbacks, ErrorCallback(tailer))
    /\ UNCHANGED <<logFiles, replayed>>
    /\ UNCHANGED <<storeVars, queueVars, parserVars, windowVars>>

\* _watch_loop, lines 100-104: the wait ends (woken, or after poll_seconds)
LoopWait ==
    /\ tailer.pc = "wait"
    /\ tailer' = [tailer EXCEPT !.pc = "test"]
    /\ UNCHANGED <<logFiles, callbacks, replayed>>
    /\ UNCHANGED <<storeVars, queueVars, parserVars, windowVars>>

\* stop(), lines 78-79
StopSignal ==
    /\ tailer.stopper = "none"
    /\ tailer' = [tailer EXCEPT !.stop = TRUE, !.stopper = "joining"]
    /\ UNCHANGED <<logFiles, callbacks, replayed>>
    /\ UNCHANGED <<storeVars, queueVars, parserVars, windowVars>>

\* stop(), lines 80-82: join(timeout=2) returns, because the loop has ended or
\* because two seconds have passed, and the caller closes the file
StopReturns ==
    /\ tailer.stopper = "joining"
    /\ tailer' = [tailer EXCEPT !.fp = None, !.stopper = "returned"]
    /\ UNCHANGED <<logFiles, callbacks, replayed>>
    /\ UNCHANGED <<storeVars, queueVars, parserVars, windowVars>>

NextWatcher ==
    \/ \E f \in LogFileNames : WriteLine(f)
    \/ \E f \in LogFileNames : CreateFile(f)
    \/ LoopTest
    \/ Refresh
    \/ RefreshFails
    \/ ReadLine
    \/ Deliver
    \/ ReadFails
    \/ LoopWait
    \/ StopSignal
    \/ StopReturns

SpecWatcher == InitWatcher /\ [][NextWatcher]_vars

\* the cycle finds a file newer than the active one while a file is open
RotationStep ==
    /\ tailer.pc = "refresh" /\ tailer'.pc = "read"
    /\ tailer.fp # None
    /\ FindLatestLogFile(logFiles) # tailer.active

EventCallbacks == { i \in DOMAIN callbacks : callbacks[i].kind = "event" }

\* C17: when a newer matching file appears while file A is open, the next cycle
\* closes A and opens the new file at offset max(0, size - bootstrap window);
\* every line emitted is a line of the file that is open, so none of A is
\* emitted from then on, and no line is emitted twice from one open file
RotationReopens ==
    /\ [][ RotationStep =>
             LET latest == FindLatestLogFile(logFiles)
                 tail == FileSize(logFiles, latest) - BootstrapLines
             IN  /\ tailer'.fp = latest /\ tailer'.active = latest
                 /\ tailer'.fp # tailer.fp
                 /\ tailer'.position = IF tail > 0 THEN tail ELSE 0
                 /\ callbacks' = callbacks ]_vars
    /\ [] /\ \A i \in EventCallbacks : callbacks[i].line[1] = callbacks[i].file
          /\ \A i, j \in EventCallbacks :
                (i # j /\ callbacks[i].handle = callbacks[j].handle) =>
                    callbacks[i].line # callbacks[j].line
          /\ tailer.pc = "deliver" => tailer.line[1] = tailer.fp \/ tailer.fp = None

\* after lines of A were emitted the watcher has moved to B, opened past its
\* first line, and emitted a line of B
RotationWitness ==
    \E i, j \in EventCallbacks :
        /\ i < j
        /\ callbacks[i].file = "A" /\ callbacks[j].file = "B"
        /\ Len(logFiles.files["B"].lines) > BootstrapLines
        /\ callbacks[j].line = logFiles.files["B"].lines[Len(logFiles.files["B"].lines)]
        /\ tailer.fp = "B"

\* at the start of a cycle the active file is still open and the latest, and
\* its size is below the read offset
TruncationSeen ==
    /\ tailer.pc = "refresh"
    /\ tailer.fp # None
    /\ FindLatestLogFile(logFiles) = tailer.active
    /\ FileSize(logFiles, tailer.active) < tailer.position

\* C29: a cycle that finds the still-open active file smaller than the read
\* offset resets the offset to 0 and reads the file from its first line in that
\* cycle; in every other step the offset of a file that stays open does not
\* decrease
TruncationRereads ==
    /\ [][ (TruncationSeen /\ tailer'.pc = "read") =>
             /\ tailer'.position = 0
             /\ tailer'.fp = tailer.fp /\ tailer'.opens = tailer.opens ]_vars
    /\ [][ (tailer.pc = "read" /\ tailer'.pc = "deliver" /\ tailer.position = 0) =>
             tailer'.line = logFiles.files[tailer.fp].lines[1] ]_vars
    /\ [][ ( /\ tailer.fp # None
             /\ tailer'.fp = tailer.fp /\ tailer'.opens = tailer.opens
             /\ tailer'.position < tailer.position ) => TruncationSeen ]_vars

\* file A was emptied in place after one of its lines had been emitted; the
\* same handle has since emitted the new first line of A
TruncationWitness ==
    \E i, j \in EventCallbacks :
        /\ i < j
        /\ callbacks[i].file = "A" /\ callbacks[j].file = "A"
        /\ callbacks[i].handle = callbacks[j].handle
        /\ logFiles.files["A"].lines # <<>>
        /\ callbacks[j].line = logFiles.files["A"].lines[1]
        /\ \A n \in DOMAIN logFiles.files["A"].lines :
              logFiles.files["A"].lines[n] # callbacks[i].line

ErrorCallbacks == { i \in DOMAIN callbacks : callbacks[i].kind = "error" }

StopIsFinal ==
    tailer.stopper = "returned" =>
        /\ tailer.pc = "done"
        /\ tailer.fp = None
        /\ \A i \in DOMAIN callbacks : ~callbacks[i].stopped

\* stop() has returned after the loop ended, with an event delivered before
StopJoinedWitness ==
    /\ tailer.stopper = "returned"
    /\ tailer.pc = "done"
    /\ EventCallbacks # {}

----------------------------------------------------------------------------
(* Live tailing and the start-up replay, each feeding lines to a parser    *)

MaxFed == 2

\* the lines of the log files: two metadata-only lines at 0 s, two room-join
\* lines 45 s later
ReplayLines ==
    { Line(0, FALSE, Part("wrld_1", "i1~hidden~nonce(n)", None, <<>>), FALSE, NoRoom),
      Line(0, FALSE, Part(None, None, None, <<"~public">>), FALSE, NoRoom),
      Line(90, FALSE, EmptyPart, TRUE, Room("Aa", None, None)),
      Line(90, FALSE, EmptyPart, TRUE, Room("Aa", "wrld_2", "i2")) }

\* a replay that parses with the watcher's own parser, self.parser
ReplayWithWatcherParser == "shared"

\* iter_all_log_events, line 168: parser = WorldEventParser()
ReplayParser == "own"

InitReplay ==
    /\ db = EmptyDb
    /\ initialized = FALSE
    /\ now = 1
    /\ probe = NoProbe
    /\ NoQueue
    /\ NoParser
    /\ NoWindow
    /\ NoWatch

\* _read_available_lines, line 154: the live watcher parses a line with self.parser
LiveLine ==
    /\ Len(replayed.live) < MaxFed
    /\ \E line \in ReplayLines :
          LET result == ParseLine(pendingContext, line, now)
          IN  /\ pendingContext' = result.context
              /\ replayed' = [replayed EXCEPT
                                 !.live = Append(@, [line |-> line, event |-> result.event])]
    /\ UNCHANGED <<parsed, metadataLine, logFiles, tailer, callbacks>>
    /\ UNCHANGED <<storeVars, queueVars, windowVars>>

\* iter_all_log_events, lines 172-175: the replay parses a line with its parser
ReplayLine ==
    /\ Len(replayed.replay) < MaxFed
    /\ \E line \in ReplayLines :
          LET own == ReplayParser = "own"
              result == ParseLine(IF own THEN replayed.context ELSE pendingContext, line, now)
          IN  /\ pendingContext' = IF own THEN pendingContext ELSE result.context
              /\ replayed' = [replayed EXCEPT
                                 !.context = IF own THEN result.context ELSE @,
                                 !.replay = Append(@, [line |-> line, event |-> result.event])]
    /\ UNCHANGED <<parsed, metadataLine, logFiles, tailer, callbacks>>
    /\ UNCHANGED <<storeVars, queueVars, windowVars>>

NextReplay == LiveLine \/ ReplayLine

SpecReplay == InitReplay /\ [][NextReplay]_vars

\* the context of a new parser after it parsed the first n lines of `fed`
RECURSIVE ContextAfter(_, _)
ContextAfter(fed, n) ==
    IF n = 0 THEN NoContext
    ELSE ParseLine(ContextAfter(fed, n - 1), fed[n].line, now).context

\* the events are those a parser gives that is fed these lines and no others
ParsedAlone(fed) ==
    \A n \in DOMAIN fed :
        fed[n].event = ParseLine(ContextAfter(fed, n - 1), fed[n].line, now).event

\* C20: live tailing and replay never share PendingContext: the events and the
\* context of the live parser are those of a parser fed the live lines alone,
\* and the events of the replay those of a parser fed the replayed lines alone
ReplayIsolation ==
    /\ ParsedAlone(replayed.live)
    /\ pendingContext = ContextAfter(replayed.live, Len(replayed.live))
    /\ ParsedAlone(replayed.replay)

\* the replay parsed a metadata line, then the live watcher a room-join line
\* within 45 s that carries no metadata; both contexts are set and differ
ReplayIsolationWitness ==
    /\ Len(replayed.replay) >= 1 /\ CarriesMetadata(replayed.replay[1].line)
    /\ Len(replayed.live) = 2
    /\ CarriesMetadata(replayed.live[1].line)
    /\ replayed.live[2].event # NoEvent
    /\ ~CarriesMetadata(replayed.live[2].line)
    /\ replayed.context # NoContext
    /\ pendingContext # NoContext
    /\ replayed.context # pendingContext

----------------------------------------------------------------------------
(* The event aggregator: _on_log_event and the drain of the flush          *)

\* C25: each _on_log_event call sets the last-event slot to the new event and
\* appends exactly that event to the pending-insert list; it appends one
\* duration entry, keyed by the previous last event and valued with the whole
\* seconds between the two, exactly when a last event existed and that
\* difference is not negative; otherwise the duration list stays as it was
OnEventEffect ==
    [][ emitted' # emitted =>
          LET current == emitted'[Len(emitted')]
              ticks == current.visited_at - lastVisit.visited_at
              whole == IF ticks >= 0 THEN ticks \div 2 ELSE 0 - ((0 - ticks) \div 2)
          IN  /\ lastVisit' = current
              /\ saveQueue' = Append(saveQueue, current)
              /\ IF lastVisit # NoVisit /\ whole >= 0
                 THEN durationQueue' =
                          Append(durationQueue,
                                 [ visited_at |-> lastVisit.visited_at,
                                   world_name |-> lastVisit.world_name,
                                   world_id |-> lastVisit.world_id,
                                   instance_id |-> lastVisit.instance_id,
                                   source_log_file |-> lastVisit.source_log_file,
                                   stay_duration_seconds |-> whole ])
                 ELSE durationQueue' = durationQueue ]_vars

\* an event older than the last event has arrived: it is queued and is the last
\* event, and no duration entry was queued for it
OnEventWitness ==
    /\ Len(emitted) = 2
    /\ emitted[2].visited_at < emitted[1].visited_at
    /\ lastVisit = emitted[2]
    /\ saveQueue = emitted
    /\ durationQueue = <<>>

\* the drains so far that took something: those whose flush has called the
\* store, and those of the flushes between their drain and their first call
DrainedFlushes ==
    { <<storeCalls[i].who, storeCalls[i].batch, storeCalls[i].stay_updates>> :
        i \in DOMAIN storeCalls }
    \cup { <<who, Flusher(who).batch, Flusher(who).stay_updates>> :
             who \in { w \in Flushers : InFlight(w) } }

\* C27: under every interleaving of _on_log_event calls and flushes each event
\* passed to _on_log_event is either still pending or in the batch of exactly one
\* drain; a drain takes both pending lists whole in one step, and a store call
\* is a step of its own that leaves both pending lists as they are
DrainExactlyOnce ==
    /\ [] \A i \in DOMAIN emitted :
             Cardinality({ d \in DrainedFlushes : emitted[i] \in Range(d[2]) })
               + Cardinality({ k \in DOMAIN saveQueue : saveQueue[k] = emitted[i] }) = 1
    /\ [][ (saver'.batch # saver.batch /\ saver'.batch # <<>>) =>
             /\ saver'.batch = saveQueue /\ saver'.stay_updates = durationQueue
             /\ saveQueue' = <<>> /\ durationQueue' = <<>> ]_vars
    /\ [][ (closer'.batch # closer.batch /\ closer'.batch # <<>>) =>
             /\ closer'.batch = saveQueue /\ closer'.stay_updates = durationQueue
             /\ saveQueue' = <<>> /\ durationQueue' = <<>> ]_vars
    /\ [][ storeCalls' # storeCalls =>
             saveQueue' = saveQueue /\ durationQueue' = durationQueue ]_vars

\* an event arrived while the saver's flush was calling the store, and the final
\* flush of closeEvent drained it
DrainWitness ==
    /\ \E d, e \in DrainedFlushes :
          d[1] = "saver" /\ e[1] = "closer" /\ d[2] # <<>> /\ e[2] # <<>>
    /\ InFlight("saver")
    /\ saveQueue # <<>>

\* the store call is a duration write-back with an entry for the event's key
DurationCallFor(call, event) ==
    /\ call.op = "durations"
    /\ \E k \in DOMAIN call.stay_updates :
          LET u == call.stay_updates[k]
          IN  /\ u.visited_at = event.visited_at /\ u.world_name = event.world_name
              /\ u.world_id = event.world_id /\ u.instance_id = event.instance_id
              /\ u.source_log_file = event.source_log_file

\* C30: for every event E, a duration write-back with an entry for E's key is
\* issued only after an insert call whose batch contains E has returned or failed
InsertBeforeDuration ==
    \A j \in DOMAIN storeCalls : \A e \in DOMAIN emitted :
        DurationCallFor(storeCalls[j], emitted[e]) =>
            \E i \in 1..(j - 1) :
                /\ storeCalls[i].op \in {"insert", "backfill"}
                /\ storeCalls[i].op = "backfill" => ~storeCalls[i].ok
                /\ emitted[e] \in Range(storeCalls[i].batch)

\* a duration write-back for an event was issued after the insert of that event
InsertBeforeDurationWitness ==
    \E i, j \in DOMAIN storeCalls : \E e \in DOMAIN emitted :
        /\ i < j
        /\ storeCalls[i].op = "insert" /\ storeCalls[i].ok
        /\ emitted[e] \in Range(storeCalls[i].batch)
        /\ DurationCallFor(storeCalls[j], emitted[e])

----------------------------------------------------------------------------
(* The batch saver alone, until shutdown is requested                      *)

\* a step of the saver thread: its loop test, its wait, its flush
SaverStep ==
    \/ SaverLoopTest
    \/ SaverWaitReturns
    \/ SaverStopTest
    \/ FlushDrain("saver")
    \/ FlushBackfill("saver")
    \/ FlushInsert("saver")
    \/ FlushDurations("saver")
    \/ FlushStoreFails("saver")

NextSaver == WatcherEvent \/ CloseSetStop \/ SaverStep

\* the saver is a thread of its own and every wait of it has a timeout
\* (line 460), so it always takes its next step
SpecSaver == InitWindow /\ [][NextSaver]_vars /\ WF_vars(SaverStep)

\* C26: while shutdown is not requested every event appended to the pending list
\* is eventually drained by a flush (the list is left only by a drain that takes
\* all of it, and a list that holds events is eventually empty unless shutdown
\* is requested); an event that brings the pending count to
\* the configured maximum sets the wake event; and a wake-up set while the saver
\* is not waiting stays set until its next wait, which it ends at once
EventuallyDrained ==
    /\ (saveQueue # <<>>) ~> (saveStopEvent \/ saveQueue = <<>>)
    /\ [][ saveQueue' # saveQueue =>
             \/ /\ Len(saveQueue') = Len(saveQueue) + 1
                /\ SubSeq(saveQueue', 1, Len(saveQueue)) = saveQueue
             \/ saveQueue' = <<>> /\ saver'.batch = saveQueue ]_vars
    /\ [][ (emitted' # emitted /\ Len(saveQueue') >= BatchMaxEvents) => wakeEvent' ]_vars
    /\ [][ (wakeEvent /\ saver.pc # "wait") => wakeEvent' ]_vars

\* the saver has flushed twice, the second time after a wake-up set during the
\* first flush, and nothing is pending
EventuallyDrainedWitness ==
    /\ ~saveStopEvent
    /\ saveQueue = <<>>
    /\ Len(emitted) = MaxWindowEvents
    /\ \E i, j \in DOMAIN storeCalls :
          /\ i < j
          /\ ~SameFlush(storeCalls[i], storeCalls[j])
          /\ storeCalls[i].op = "insert" /\ storeCalls[j].op = "insert"
          /\ Len(storeCalls[j].batch) >= BatchMaxEvents

----------------------------------------------------------------------------
(* The canonical access type on the write paths (SpecStore)                *)

\* C33: no stored record has instance_access_type 'hidden': insertIfMissing,
\* backfillMetadata and the legacy backfill of initialize() all write the
\* canonical 'friends+' for a 'hidden' tag
NoHiddenAccessType ==
    \A i \in DOMAIN db.rows : db.rows[i].instance_access_type # "hidden"

\* initialize() has run on a table with a legacy row whose instance id carries
\* the tag ~hidden, and has derived raw tags and access type for it
NoHiddenAccessTypeWitness ==
    /\ initialized
    /\ \E i \in DOMAIN db.rows :
          /\ db.rows[i].instance_id = "i1~hidden"
          /\ db.rows[i].instance_raw_tags = "~hidden"
          /\ db.rows[i].instance_access_type # None

----------------------------------------------------------------------------
(* The watch loop with and without the filesystem observer                 *)

\* what the thread finds when it sets the observer up: the watchdog import
\* failed or the log directory is missing; the observer starts; Observer(),
\* schedule() or start() raises
Capabilities == {"absent", "available", "failing"}

InitObserver ==
    /\ db = EmptyDb
    /\ initialized = FALSE
    /\ now = 0
    /\ probe \in { [phase |-> "observer", capability |-> c, observer |-> None] :
                      c \in Capabilities }
    /\ NoQueue
    /\ NoParser
    /\ NoWindow
    /\ logFiles \in { InitialDir(k) : k \in 0..2 }
    /\ tailer = [IdleTailer EXCEPT !.pc = "start"]
    /\ callbacks = <<>>
    /\ replayed = NoReplay

\* _watch_loop, lines 85-91: the observer is set up inside a try that has a
\* finally and no except, so an exception of the set-up ends the thread after
\* the finally closed the active file
ObserverStart ==
    /\ tailer.pc = "start"
    /\ IF probe.capability = "failing"
       THEN /\ tailer' = [tailer EXCEPT !.pc = "dead", !.fp = None]
            /\ probe' = probe
       ELSE /\ tailer' = [tailer EXCEPT !.pc = "test"]
            /\ probe' = [probe EXCEPT !.observer =
                            IF probe.capability = "available" THEN "started" ELSE None]
    /\ UNCHANGED <<db, initialized, now>>
    /\ UNCHANGED <<logFiles, callbacks, replayed>>
    /\ UNCHANGED <<queueVars, parserVars, windowVars>>

NextObserver ==
    \/ ObserverStart
    \/ \E f \in LogFileNames : WriteLine(f)
    \/ \E f \in LogFileNames : CreateFile(f)
    \/ LoopTest
    \/ Refresh
    \/ ReadLine
    \/ Deliver
    \/ LoopWait
    \/ StopSignal
    \/ StopReturns

SpecObserver == InitObserver /\ [][NextObserver]_vars

\* C37: when the notification capability is absent or cannot be started, the
\* loop still runs its read cycles until stop() is signalled, and the missing
\* capability is not reported as an error
PollingFallback ==
    probe.capability \in {"absent", "failing"} =>
        /\ tailer.pc # "dead"
        /\ tailer.stopper = "none" =>
               \A i \in DOMAIN callbacks : callbacks[i].kind # "error"

\* a watcher without the capability has read a line in a polling cycle
PollingWitness ==
    /\ probe.phase = "observer"
    /\ probe.capability = "absent"
    /\ tailer.stopper = "none"
    /\ \E i \in DOMAIN callbacks : callbacks[i].kind = "event"

----------------------------------------------------------------------------
(* Rotation of the log file under a running watcher                        *)

\* the application appends a line to its current log file while the watcher
\* has that file open as its active file; the first such line is remembered
WriteActiveLine ==
    /\ tailer.fp # None
    /\ tailer.fp = tailer.active
    /\ tailer.fp = FindLatestLogFile(logFiles)
    /\ logFiles.written < MaxWrites
    /\ logFiles' =
           [ written |-> logFiles.written + 1,
             files |-> [logFiles.files EXCEPT
                            ![tailer.fp].lines = Append(@, <<tailer.fp, logFiles.written + 1>>),
                            ![tailer.fp].mtime = logFiles.written + 1] ]
    /\ probe' = IF probe = NoProbe
                THEN [phase |-> "appended", line |-> <<tailer.fp, logFiles.written + 1>>]
                ELSE probe
    /\ UNCHANGED <<db, initialized, now>>
    /\ UNCHANGED <<tailer, callbacks, replayed>>
    /\ UNCHANGED <<queueVars, parserVars, windowVars>>

\* the application appends a line to its current log file
WriteCurrentLine(f) ==
    /\ f = FindLatestLogFile(logFiles)
    /\ WriteLine(f)

\* the application starts a new log file
RotateTo(f) ==
    /\ ~logFiles.files[f].exists
    /\ CreateFile(f)

\* one step of the watcher thread
WatcherStep == LoopTest \/ Refresh \/ ReadLine \/ Deliver \/ LoopWait

NextRotation ==
    \/ WriteActiveLine
    \/ \E f \in LogFileNames : WriteCurrentLine(f)
    \/ \E f \in LogFileNames : RotateTo(f)
    \/ LoopTest
    \/ Refresh
    \/ ReadLine
    \/ Deliver
    \/ LoopWait

\* the watcher thread is scheduled as long as it is not stopped
SpecRotation == InitWatcher /\ [][NextRotation]_vars /\ WF_vars(WatcherStep)

\* the remembered line has been fed to the live parser
FedToParser ==
    \E i \in DOMAIN callbacks :
        callbacks[i].kind = "event" /\ callbacks[i].line = probe.line

\* C38: every line appended to a log file while the running watcher has it
\* open as the active file is eventually fed to the live parser, also when a
\* newer file becomes the active file before the watcher's next read
NoLineLostAtRotation ==
    (probe.phase = "appended") ~> (probe.phase = "appended" /\ FedToParser)

\* a line appended to the open file was fed to the parser, and the watcher has
\* moved to a newer file since
RotationFedWitness ==
    /\ probe.phase = "appended"
    /\ FedToParser
    /\ tailer.active # None
    /\ tailer.active # probe.line[1]

----------------------------------------------------------------------------
(* A backfill that meets the unique index (SpecBackfillTwice)              *)

\* the first backfill_visit_metadata call of the probe has returned
BackfillReturned == probe.phase = "once" /\ probe.op = "backfill"

\* the fill of row id of the table `rows` with the metadata of candidate v
FillOf(rows, id, v) == BackfilledRow(RowById(rows, id), NewMetadata(v), IsoFormat(now))

\* row id of `rows` has a column candidate v can fill, and the filled row
\* would take the key of another row of the table `others`
FillCollides(rows, others, id, v) ==
    /\ ~NothingToFill(RowById(rows, id), FillOf(rows, id, v))
    /\ KeyTaken(others, EventKey(FillOf(rows, id, v)), id)

\* a call with one candidate: each matched record is filled, or has nothing to
\* fill, or its fill would collide; the return value counts the filled ones
OneCandidateOutcome(v) ==
    LET before  == probe.before.rows
        targets == Range(TargetRows(before, v, probe.plan))
        filled  == { id \in targets : RowById(db.rows, id) # RowById(before, id) }
    IN  /\ \A id \in RowIds(before) \ targets : RowById(db.rows, id) = RowById(before, id)
        /\ \A id \in targets :
              IF NothingToFill(RowById(before, id), FillOf(before, id, v))
                 \/ FillCollides(before, db.rows, id, v)
              THEN RowById(db.rows, id) = RowById(before, id)
              ELSE RowById(db.rows, id) = FillOf(before, id, v)
        /\ probe.first = Cardinality(filled)

\* the last candidate of a batch has been applied to each of its matched
\* records: nothing is left that it could fill without a collision
LastCandidateApplied(v) ==
    (\E f \in DOMAIN NewMetadata(v) : Truthy(NewMetadata(v)[f])) =>
        \A id \in Range(TargetRows(db.rows, v, probe.plan)) :
            \/ NothingToFill(RowById(db.rows, id), FillOf(db.rows, id, v))
            \/ FillCollides(db.rows, db.rows, id, v)

\* C36: a matched record whose fill would violate the uniqueness constraint is
\* left entirely unchanged and is not counted, the call does not fail, and the
\* remaining matched records and candidates of the batch are still processed
BackfillSkipsCollisions ==
    BackfillReturned =>
        /\ RowIds(db.rows) = RowIds(probe.before.rows)
        /\ \A i, j \in DOMAIN db.rows :
              EventKey(db.rows[i]) = EventKey(db.rows[j]) => i = j
        /\ Len(probe.visits) = 1 => OneCandidateOutcome(probe.visits[1])
        /\ Len(probe.visits) > 1 => LastCandidateApplied(probe.visits[Len(probe.visits)])

\* a one-candidate call that left a matched record unchanged because of a
\* collision and filled a matched record with a higher id
BackfillCollisionWitness ==
    /\ BackfillReturned
    /\ Len(probe.visits) = 1
    /\ probe.first = 1
    /\ \E a, b \in Range(TargetRows(probe.before.rows, probe.visits[1], probe.plan)) :
          /\ a < b
          /\ FillCollides(probe.before.rows, probe.before.rows, a, probe.visits[1])
          /\ RowById(db.rows, a) = RowById(probe.before.rows, a)
          /\ RowById(db.rows, b) # RowById(probe.before.rows, b)

\* a two-candidate call whose first candidate met a collision and whose
\* second candidate filled a record
BackfillLaterCandidateWitness ==
    /\ BackfillReturned
    /\ Len(probe.visits) = 2
    /\ probe.first = 1
    /\ \E id \in RowIds(probe.before.rows) :
          FillCollides(probe.before.rows, probe.before.rows, id, probe.visits[1])
    /\ BackfillVisitMetadata(probe.before, <<probe.visits[1]>>, probe.plan, IsoFormat(now)).ret = 0

----------------------------------------------------------------------------
(* initialize() at two starts of the program                               *)

\* the table before the first start: up to MaxSeed rows of one second and
\* world, with and without world id, with a plain instance id or one with a tag
InitReinit ==
    /\ db \in { InsertAll(EmptyDb, seed, 0) :
                   seed \in Batches(KeyVisits \cup LegacyVisits, MaxSeed) }
    /\ initialized = FALSE
    /\ now = 0
    /\ probe = NoProbe
    /\ NoQueue
    /\ NoParser
    /\ NoWindow
    /\ NoWatch

\* the program is started again: Database.initialize on the store as the
\* first initialize() left it
InitializeAgain ==
    /\ initialized
    /\ probe = NoProbe
    /\ db' = InitializeDb(db, IsoFormat(now))
    /\ probe' = [phase |-> "again", before |-> db]
    /\ UNCHANGED <<initialized, now>>
    /\ UNCHANGED <<queueVars, parserVars, windowVars, watchVars>>

NextReinit == Initialize \/ InitializeAgain \/ ClockAdvance

SpecReinit == InitReinit /\ [][NextReinit]_vars

\* C34: initialize() on a store that initialize() has already processed, with
\* no operation in between, deletes no record and changes no column of any
\* record, updated_at included
InitializeIdempotent ==
    probe # NoProbe => db = probe.before

\* the second initialize() has run, later than the first, on a table with a
\* row whose instance id carries no access tag
InitializeAgainWitness ==
    /\ probe # NoProbe
    /\ now > 1
    /\ \E i \in DOMAIN db.rows :
          /\ db.rows[i].instance_id = "i1"
          /\ db.rows[i].instance_access_type = None

----------------------------------------------------------------------------
(* The start-up replay of the log files, run at two starts of the program  *)

MaxLogLines == 2

\* the lines of the log file: a room-join line stamped 10 s, the same with a
\* world id, a room-join line without a timestamp, a metadata line stamped 10 s
RestartLines ==
    { Line(20, FALSE, EmptyPart, TRUE, Room("Aa", None, None)),
      Line(20, FALSE, EmptyPart, TRUE, Room("Aa", "wrld_1", None)),
      Line(NoneInt, FALSE, EmptyPart, TRUE, Room("Aa", None, None)),
      Line(20, FALSE, Part("wrld_1", "i1~hidden~nonce(n)", None, <<>>), FALSE, NoRoom) }

\* a replay that records the gap to the next event whatever its sign
ReplayChunkAnySign(events) ==
    [ i \in DOMAIN events |->
        IF i < Len(events)
        THEN [events[i] EXCEPT !.stay_duration_seconds =
                  TotalSecondsInt(events[i + 1].visited_at, events[i].visited_at)]
        ELSE events[i] ]

\* _start_initial_log_import, lines 490-509: each event but the last gets the
\* whole seconds to the next event as its stay, unless they are negative
ReplayChunk(events) ==
    [ i \in DOMAIN events |->
        IF i < Len(events)
           /\ TotalSecondsInt(events[i + 1].visited_at, events[i].visited_at) >= 0
        THEN [events[i] EXCEPT !.stay_duration_seconds =
                  TotalSecondsInt(events[i + 1].visited_at, events[i].visited_at)]
        ELSE events[i] ]

\* the replay thread of a start of the program: nothing parsed yet
ReplayStart(run, log) ==
    [run |-> run, pc |-> "parse", log |-> log, at |-> 0, context |-> NoContext, events |-> <<>>]

InitRestart ==
    /\ db = InitializeDb(EmptyDb, 0)
    /\ initialized = TRUE
    /\ now = 1
    /\ probe \in { ReplayStart(1, log) : log \in Batches(RestartLines, MaxLogLines) }
    /\ NoQueue
    /\ NoParser
    /\ NoWindow
    /\ NoWatch

\* iter_all_log_events, lines 172-175, and the QueuedVisit of
\* _start_initial_log_import (lines 478-487): the next line of the file
ReplayParse ==
    /\ probe.pc = "parse"
    /\ probe.at < Len(probe.log)
    /\ \E result \in {ParseLine(probe.context, probe.log[probe.at + 1], now)} :
           probe' = [probe EXCEPT
                        !.at = @ + 1,
                        !.context = result.context,
                        !.events = IF result.event = NoEvent THEN @
                                   ELSE Append(@, QueuedVisit(result.event, "f1"))]
    /\ UNCHANGED <<db, initialized, now>>
    /\ UNCHANGED <<queueVars, parserVars, windowVars, watchVars>>

\* _start_initial_log_import, lines 508-514: the chunk is closed and backfilled
ReplayBackfill ==
    /\ probe.pc = "parse"
    /\ probe.at = Len(probe.log)
    /\ \E plan \in Plans :
          db' = BackfillVisitMetadata(db, ReplayChunk(probe.events), plan, IsoFormat(now)).db
    /\ probe' = [probe EXCEPT !.pc = "insert", !.events = ReplayChunk(probe.events)]
    /\ UNCHANGED <<initialized, now>>
    /\ UNCHANGED <<queueVars, parserVars, windowVars, watchVars>>

\* _start_initial_log_import, lines 515-517
ReplayInsert ==
    /\ probe.pc = "insert"
    /\ LET res == AddVisitsIfMissing(db, probe.events, IsoFormat(now))
       IN  /\ db' = res.db
           /\ probe' = IF probe.run = 1
                       THEN [run |-> 1, pc |-> "done", log |-> probe.log, first |-> res.ret]
                       ELSE [run |-> 2, pc |-> "done", log |-> probe.log, first |-> probe.first,
                             between |-> probe.between, second |-> res.ret]
    /\ UNCHANGED <<initialized, now>>
    /\ UNCHANGED <<queueVars, parserVars, windowVars, watchVars>>

\* the program is closed and started again, the log files as they were
Restart ==
    /\ probe.pc = "done"
    /\ probe.run = 1
    /\ \E t \in {now, now + 1, now + 2} : now' = t
    /\ probe' = [ run |-> 2, pc |-> "parse", log |-> probe.log, at |-> 0,
                  context |-> NoContext, events |-> <<>>,
                  first |-> probe.first, between |-> db ]
    /\ UNCHANGED <<db, initialized>>
    /\ UNCHANGED <<queueVars, parserVars, windowVars, watchVars>>

NextRestart == ReplayParse \/ ReplayBackfill \/ ReplayInsert \/ Restart

SpecRestart == InitRestart /\ [][NextRestart]_vars

ReplayedTwice == probe.pc = "done" /\ probe.run = 2

\* C21: the replay run a second time over unchanged log files inserts no record
ReplayTwiceInsertsNothing ==
    ReplayedTwice => (probe.second = 0 /\ Len(db.rows) = Len(probe.between.rows))

\* the second replay of a log with two room-join lines has run
ReplayTwiceWitness ==
    /\ ReplayedTwice
    /\ probe.first = 2
    /\ probe.second = 0

----------------------------------------------------------------------------
(* The live stream and the start-up replay over one log file               *)

\* _open_active_file, line 141: the live watcher starts one bootstrap window
\* (1 MiB) before the end of the file, which is the file start or a later line,
\* the last line at the latest
LiveOffsets(log) == IF log = <<>> THEN {0} ELSE 0..(Len(log) - 1)

\* MainWindow.__init__ starts the watcher and the replay over the same file:
\* the replay at the file start, the watcher at its bootstrap offset
InitConverge ==
    /\ db = InitializeDb(EmptyDb, 0)
    /\ initialized = TRUE
    /\ now = 1
    /\ probe \in { ReplayStart(1, log) : log \in Batches(RestartLines, MaxLogLines) }
    /\ NoQueue
    /\ NoParser
    /\ NoWindow
    /\ logFiles = NoFiles
    /\ \E offset \in LiveOffsets(probe.log) :
          /\ tailer = [IdleTailer EXCEPT !.position = offset]
          /\ callbacks = <<[kind |-> "open", position |-> offset]>>
    /\ replayed = NoReplay

\* _read_available_lines (lines 145-156) and MainWindow._on_log_event: the
\* watcher reads the next line, parses it and queues the event it yields
LiveRead ==
    /\ tailer.position < Len(probe.log)
    /\ tailer' = [tailer EXCEPT !.position = @ + 1]
    /\ \E result \in {ParseLine(pendingContext, probe.log[tailer.position + 1], now)} :
          /\ pendingContext' = result.context
          /\ IF result.event = NoEvent
             THEN UNCHANGED <<lastVisit, saveQueue, durationQueue, wakeEvent, emitted>>
             ELSE \E current \in {QueuedVisit(result.event, "f1")} :
                     /\ durationQueue' = DurationQueueAfter(durationQueue, lastVisit, current)
                     /\ lastVisit' = current
                     /\ saveQueue' = Append(saveQueue, current)
                     /\ wakeEvent' = (wakeEvent \/ Len(saveQueue) + 1 >= BatchMaxEvents)
                     /\ emitted' = Append(emitted, current)
    /\ UNCHANGED <<saver, parsed, metadataLine, logFiles, callbacks, replayed>>
    /\ UNCHANGED <<storeVars, windowVars>>

NextConverge ==
    \/ LiveRead \/ SaverWake \/ SaverDrain \/ SaverBackfill \/ SaverInsert \/ SaverDurations
    \/ ReplayParse \/ ReplayBackfill \/ ReplayInsert

SpecConverge == InitConverge /\ [][NextConverge]_vars

\* the events a stream yields from line at + 1 of the log on
RECURSIVE StreamEvents(_, _, _, _)
StreamEvents(log, at, context, clock) ==
    IF at >= Len(log) THEN <<>>
    ELSE LET result == ParseLine(context, log[at + 1], clock)
             rest   == StreamEvents(log, at + 1, result.context, clock)
         IN  IF result.event = NoEvent THEN rest
             ELSE <<QueuedVisit(result.event, "f1")>> \o rest

\* the identity of the stored records
StoredRecords(d) ==
    { << d.rows[i].visited_at, d.rows[i].world_name, d.rows[i].world_id,
         d.rows[i].instance_id >> : i \in DOMAIN d.rows }

\* the records stored when the replay runs to its end before the live stream
\* reads its first line and the live events are then flushed as one batch
ReplayThenLive(log, offset) ==
    LET chunk  == ReplayChunk(StreamEvents(log, 0, NoContext, 1))
        empty  == InitializeDb(EmptyDb, 0)
        first  == AddVisitsIfMissing(BackfillVisitMetadata(empty, chunk, "rowid", 0).db,
                                     chunk, 0).db
        live   == StreamEvents(log, offset, NoContext, 1)
    IN  StoredRecords(AddVisitsIfMissing(BackfillVisitMetadata(first, live, "rowid", 0).db,
                                         live, 0).db)

\* both streams have read the file to its end and everything is flushed
BothStreamsDone ==
    /\ probe.pc = "done"
    /\ tailer.position = Len(probe.log)
    /\ saveQueue = <<>> /\ durationQueue = <<>>
    /\ saver.pc = "wait" /\ saver.batch = <<>> /\ saver.stay_updates = <<>>

\* C22: whatever the interleaving of live flushes and replay chunks, the final
\* set of stored records, world_id and instance_id included, is the same
StreamsConverge ==
    BothStreamsDone => StoredRecords(db) = ReplayThenLive(probe.log, callbacks[1].position)

\* both streams are done over a file of a metadata line and a room-join line
StreamsConvergeWitness ==
    /\ BothStreamsDone
    /\ Len(probe.log) = MaxLogLines
    /\ Len(emitted) = 1
    /\ \E i \in DOMAIN db.rows : db.rows[i].world_id = "wrld_1"

\* C40: in every reachable store state, each record written by the live
\* flushes and the backlog replay, in any interleaving and with events out of
\* time order, has stay_duration_seconds null or not negative
StayNeverNegative ==
    \A i \in DOMAIN db.rows :
        db.rows[i].stay_duration_seconds = NoneInt \/ db.rows[i].stay_duration_seconds >= 0

\* both streams have stored the two events of a log whose second line is
\* earlier than its first
OutOfOrderStoredWitness ==
    /\ BothStreamsDone
    /\ Len(probe.log) = 2
    /\ probe.log[1].ts = 20
    /\ probe.log[2].ts = NoneInt
    /\ Len(db.rows) = 2
    /\ Len(emitted) = 2

----------------------------------------------------------------------------
(* The start-up replay of a log file that has grown since the last start   *)

\* what the application appended to the log after the first replay: a
\* room-join line stamped 20 s, one stamped 10 s, one stamped 5 s
GrownLines ==
    { Line(40, FALSE, EmptyPart, TRUE, Room("Bb", None, None)),
      Line(20, FALSE, EmptyPart, TRUE, Room("Bb", None, None)),
      Line(10, FALSE, EmptyPart, TRUE, Room("Bb", None, None)) }

\* the program is closed, the application appends a line to the log file, and
\* the program is started again
RestartGrown ==
    /\ probe.pc = "done"
    /\ probe.run = 1
    /\ \E t \in {now, now + 1, now + 2} : now' = t
    /\ \E line \in GrownLines :
          probe' = [ run |-> 2, pc |-> "parse", log |-> Append(probe.log, line), at |-> 0,
                     context |-> NoContext, events |-> <<>>,
                     first |-> probe.first, between |-> db ]
    /\ UNCHANGED <<db, initialized>>
    /\ UNCHANGED <<queueVars, parserVars, windowVars, watchVars>>

NextGrown == ReplayParse \/ ReplayBackfill \/ ReplayInsert \/ RestartGrown

SpecGrown == InitRestart /\ [][NextGrown]_vars

\* the stored record with the key of a replayed event carries the stay
RecordHasStay(event, stay) ==
    \E i \in DOMAIN db.rows :
        /\ EventKey(db.rows[i]) = EventKey(VisitRow(event, 0, 0))
        /\ db.rows[i].stay_duration_seconds = stay

\* every replayed event but the last has its non-negative gap to the next
\* event on its stored record
ReplayedStays(events) ==
    \A i \in 1..(Len(events) - 1) :
        LET gap == TotalSecondsInt(events[i + 1].visited_at, events[i].visited_at)
        IN  gap >= 0 => RecordHasStay(events[i], gap)

\* C39: after a replay completed, the stored record of every replayed event but
\* the last has stay_duration_seconds equal to the non-negative whole-second gap
\* to the next replayed event, also when the record existed before the replay
\* with a null duration
ReplayDurationsStored ==
    probe.pc = "done" => ReplayedStays(StreamEvents(probe.log, 0, NoContext, now))

\* the second replay found the record of its first event stored with a null
\* duration, and a later event to measure the stay against
ReplayExistingRecordWitness ==
    /\ probe.pc = "done"
    /\ probe.run = 2
    /\ Len(StreamEvents(probe.log, 0, NoContext, now)) = 2
    /\ Len(probe.between.rows) = 1
    /\ probe.between.rows[1].stay_duration_seconds = NoneInt
    /\ probe.second = 1

----------------------------------------------------------------------------
(* The grouped read of the history list                                    *)

MaxListRows == 3

\* visits of two days (10 s and 135 s into the first, 10 s into the second),
\* of a world, of the same name in lower case, and of the home world
ListInputs ==
    { Visit(t, name, None, None, None, None, None, stay, "f1") :
        t \in {20, 270, 172820}, name \in {"Aa", "Home"}, stay \in {NoneInt, 7, 60} }
        \cup { Visit(20, "aa", None, None, None, None, None, 7, "f1") }

\* FilterCriteria.start_datetime: not set, or 135 s into the first day
ListStarts == {NoneInt, 135}

\* substr(visited_at, 1, 10): the date part of the stored text
ListDate(visited_at) == visited_at \div (24 * 60 * 60)

\* the WHERE clauses (lines 466-473): never a home world, not before the start
ListSelected(rows, start) ==
    { i \in DOMAIN rows :
        /\ LowerTrim(rows[i].world_name) \notin HomeWorldNames
        /\ start # NoneInt => rows[i].visited_at >= start }

\* GROUP BY substr(visited_at, 1, 10), world_name
ListGroupKey(row) == << ListDate(row.visited_at), row.world_name >>

ListGroup(rows, start, key) ==
    { i \in ListSelected(rows, start) : ListGroupKey(rows[i]) = key }

\* the stay of the row of the group that was stored first
ListStayOfFirst(rows, group) ==
    rows[CHOOSE i \in group : \A j \in group : rows[i].id <= rows[j].id].stay_duration_seconds

\* MAX(stay_duration_seconds): NULL values are skipped, NULL if there is no other
ListStay(rows, group) ==
    LET stays == { rows[i].stay_duration_seconds : i \in group } \ {NoneInt}
    IN  IF stays = {} THEN NoneInt
        ELSE CHOOSE s \in stays : \A u \in stays : u <= s

\* the SELECT list (lines 450-464), the columns the list is keyed and sorted by
ListRecord(rows, start, key) ==
    LET group == ListGroup(rows, start, key)
    IN  [ id |-> CHOOSE a \in { rows[i].id : i \in group } :
                     \A i \in group : a <= rows[i].id,
          visited_at |-> CHOOSE a \in { rows[i].visited_at : i \in group } :
                     \A i \in group : a <= rows[i].visited_at,
          world_name |-> key[2],
          stay_duration_seconds |-> ListStay(rows, group) ]

\* ORDER BY visited_at DESC names the result column MIN(visited_at); records
\* with equal visited_at come in any order
ListOrders(records) ==
    { s \in [1..Cardinality(records) -> records] :
        /\ \A i, j \in DOMAIN s : i # j => s[i] # s[j]
        /\ \A i, j \in DOMAIN s : i < j => s[i].visited_at >= s[j].visited_at }

\* HistoryRepository.list_visits
ListVisits(rows, start) ==
    ListOrders({ ListRecord(rows, start, key) :
                    key \in { ListGroupKey(rows[i]) : i \in ListSelected(rows, start) } })

InitList ==
    /\ db = InitializeDb(EmptyDb, 0)
    /\ initialized = TRUE
    /\ now = 0
    /\ probe = [phase |-> "rows"]
    /\ NoQueue
    /\ NoParser
    /\ NoWindow
    /\ NoWatch

\* a visit is stored (add_visits_if_missing)
ListInsert ==
    /\ Len(db.rows) < MaxListRows
    /\ \E v \in ListInputs : db' = AddVisitsIfMissing(db, <<v>>, IsoFormat(now)).db
    /\ probe' = [phase |-> "rows"]
    /\ UNCHANGED <<initialized, now>>
    /\ UNCHANGED <<queueVars, parserVars, windowVars, watchVars>>

\* the window reads the list
ListRead ==
    /\ \E start \in ListStarts : \E result \in ListVisits(db.rows, start) :
          probe' = [phase |-> "listed", start |-> start, result |-> result]
    /\ UNCHANGED <<db, initialized, now>>
    /\ UNCHANGED <<queueVars, parserVars, windowVars, watchVars>>

NextList == ListInsert \/ ListRead

SpecList == InitList /\ [][NextList]_vars

\* C23: the list holds at most one record per (date, world_name); each carries
\* the lowest id, the earliest visited_at and the largest stay of the rows of
\* its group; none is a home world; the records come latest visited_at first
ListGrouping ==
    probe.phase = "listed" =>
        LET result   == probe.result
            selected == { i \in DOMAIN db.rows :
                            probe.start # NoneInt => db.rows[i].visited_at >= probe.start }
            groupOf(r) == { i \in selected :
                              /\ ListDate(db.rows[i].visited_at) = ListDate(r.visited_at)
                              /\ db.rows[i].world_name = r.world_name }
        IN  /\ \A a, b \in DOMAIN result :
                  a # b => \/ ListDate(result[a].visited_at) # ListDate(result[b].visited_at)
                           \/ result[a].world_name # result[b].world_name
            /\ \A a \in DOMAIN result :
                  LET r == result[a]
                  IN  /\ groupOf(r) # {}
                      /\ \A i \in groupOf(r) :
                            /\ r.id <= db.rows[i].id
                            /\ r.visited_at <= db.rows[i].visited_at
                            /\ db.rows[i].stay_duration_seconds # NoneInt =>
                                  r.stay_duration_seconds >= db.rows[i].stay_duration_seconds
                      /\ \E i \in groupOf(r) : r.id = db.rows[i].id
                      /\ \E i \in groupOf(r) : r.visited_at = db.rows[i].visited_at
                      /\ \E i \in groupOf(r) :
                            r.stay_duration_seconds = db.rows[i].stay_duration_seconds
                      /\ Lower(Strip(r.world_name)) # "home"
            /\ \A a, b \in DOMAIN result :
                  a < b => result[a].visited_at >= result[b].visited_at
            /\ \A i \in selected :
                  Lower(Strip(db.rows[i].world_name)) # "home" =>
                      \E a \in DOMAIN result :
                          /\ ListDate(result[a].visited_at) = ListDate(db.rows[i].visited_at)
                          /\ result[a].world_name = db.rows[i].world_name

\* a list of two records read from three rows: two rows of one day and world
\* whose later row has the longer stay, a home-world row left out
ListGroupingWitness ==
    /\ probe.phase = "listed"
    /\ Len(db.rows) = 3
    /\ Len(probe.result) = 1
    /\ \E i, j, k \in DOMAIN db.rows :
          /\ db.rows[i].world_name = "Aa" /\ db.rows[j].world_name = "Aa"
          /\ db.rows[k].world_name = "Home"
          /\ db.rows[i].id < db.rows[j].id
          /\ ListDate(db.rows[i].visited_at) = ListDate(db.rows[j].visited_at)
          /\ db.rows[i].stay_duration_seconds = 7
          /\ db.rows[j].stay_duration_seconds = 60
          /\ probe.result[1].stay_duration_seconds = 60
          /\ probe.result[1].id = db.rows[i].id

----------------------------------------------------------------------------
(* The user's notes next to the ingestion pipeline                         *)

MaxEdits == 1

\* what the user types into the memo and tags fields
NoteInputs == { <<" n ", " n ">>, <<" n ", "">>, <<"", "">> }

\* normalize_tag_string on the universe: no tag gives None, else the tags joined
NormalizeTagString(value) ==
    IF value = None \/ Strip(value) = "" THEN None ELSE Strip(value)

\* HistoryRepository.update_notes_for_visit_group
UpdateNotesForVisitGroup(d, visited_at, world_name, world_id, memo, tags, nowIso) ==
    LET hit(row) ==
            IF Truthy(world_id) /\ Strip(world_id) # ""
            THEN row.world_id = Strip(world_id) /\ ListDate(row.visited_at) = ListDate(visited_at)
            ELSE /\ LowerTrim(row.world_name) = LowerTrim(world_name)
                 /\ ListDate(row.visited_at) = ListDate(visited_at)
    IN  [d EXCEPT !.rows =
            [ i \in DOMAIN d.rows |->
                IF hit(d.rows[i])
                THEN [d.rows[i] EXCEPT !.memo = NormalizeOptionalText(memo),
                                       !.tags = NormalizeTagString(tags),
                                       !.updated_at = nowIso]
                ELSE d.rows[i] ]]

InitNotes ==
    /\ db = InitializeDb(EmptyDb, 0)
    /\ initialized = TRUE
    /\ now = 0
    /\ probe = [edits |-> 0, after |-> EmptyDb]
    /\ NoQueue
    /\ NoParser
    /\ NoWindow
    /\ NoWatch

\* the user saves memo and tags for a listed visit
UpdateNotes ==
    /\ probe.edits < MaxEdits
    /\ \E i \in DOMAIN db.rows, note \in NoteInputs :
          /\ db' = UpdateNotesForVisitGroup(db, db.rows[i].visited_at, db.rows[i].world_name,
                                            db.rows[i].world_id, note[1], note[2],
                                            IsoFormat(now))
          /\ probe' = [edits |-> probe.edits + 1, after |-> db']
    /\ UNCHANGED <<initialized, now>>
    /\ UNCHANGED <<queueVars, parserVars, windowVars, watchVars>>

NextNotes == InsertIfMissing \/ BackfillMetadata \/ UpdateStayDurations \/ UpdateNotes

SpecNotes == InitNotes /\ [][NextNotes]_vars

\* C24: insertIfMissing, backfillMetadata and updateDurations leave memo and tags
\* of every existing record as they were, and a record they create has both null
PipelineKeepsNotes ==
    [][ probe' = probe =>
          /\ \A i \in DOMAIN db.rows : \E j \in DOMAIN db'.rows :
                /\ db'.rows[j].id = db.rows[i].id
                /\ db'.rows[j].memo = db.rows[i].memo
                /\ db'.rows[j].tags = db.rows[i].tags
          /\ \A j \in DOMAIN db'.rows :
                (\A i \in DOMAIN db.rows : db.rows[i].id # db'.rows[j].id) =>
                    db'.rows[j].memo = None /\ db'.rows[j].tags = None ]_vars

\* after the user's edit a row with notes was backfilled and given a duration,
\* and another row was created
PipelineKeepsNotesWitness ==
    /\ probe.edits = 1
    /\ Len(db.rows) > Len(probe.after.rows)
    /\ \E i \in DOMAIN db.rows : \E j \in DOMAIN probe.after.rows :
          /\ db.rows[i].id = probe.after.rows[j].id
          /\ db.rows[i].memo = "n" /\ db.rows[i].tags = "n"
          /\ db.rows[i].world_id # probe.after.rows[j].world_id
          /\ db.rows[i].stay_duration_seconds # probe.after.rows[j].stay_duration_seconds

----------------------------------------------------------------------------
(* The live watcher on a file that grows character by character            *)
(* Here the content of a file is the sequence of its characters, a size or *)
(* an offset counts characters, and "\n" ends a line.                      *)

MaxChars == 4

\* the watcher has opened the empty file A and waits for its next cycle
InitTail ==
    /\ db = EmptyDb
    /\ initialized = FALSE
    /\ now = 0
    /\ probe = NoProbe
    /\ NoQueue
    /\ NoParser
    /\ NoWindow
    /\ logFiles = [ written |-> 0,
                    files |-> [f \in LogFileNames |->
                                  [exists |-> f = "A", mtime |-> 0, lines |-> <<>>]] ]
    /\ tailer = OpenActiveFile(IdleTailer, logFiles, "A")
    /\ callbacks = <<>>
    /\ replayed = NoReplay

\* the application writes the next character of its log
WriteChar ==
    /\ Len(logFiles.files["A"].lines) < MaxChars
    /\ \E c \in {"x", "\n"} :
          logFiles' = [ written |-> logFiles.written + 1,
                        files |-> [logFiles.files EXCEPT
                                      !["A"].lines = Append(@, c),
                                      !["A"].mtime = logFiles.written + 1] ]
    /\ UNCHANGED <<tailer, callbacks, replayed>>
    /\ UNCHANGED <<storeVars, queueVars, parserVars, windowVars>>

\* fp.readline(): the characters up to and with the next "\n", or up to the
\* end of the file when there is none
ReadlineAt(chars, position) ==
    LET ends == { i \in position + 1 .. Len(chars) : chars[i] = "\n" }
        last == IF ends = {} THEN Len(chars)
                ELSE CHOOSE i \in ends : \A j \in ends : i <= j
    IN  SubSeq(chars, position + 1, last)

\* _read_available_lines, lines 149-156: one turn of the loop
ReadChars ==
    /\ tailer.pc = "read"
    /\ tailer.fp # None
    /\ LET line == ReadlineAt(logFiles.files[tailer.fp].lines, tailer.position)
       IN  IF line = <<>>
           THEN /\ tailer' = [tailer EXCEPT !.pc = "wait"]
                /\ callbacks' = callbacks
           ELSE /\ tailer' = [tailer EXCEPT !.position = @ + Len(line)]
                /\ callbacks' = Append(callbacks, [kind |-> "line", line |-> line])
    /\ UNCHANGED <<logFiles, replayed>>
    /\ UNCHANGED <<storeVars, queueVars, parserVars, windowVars>>

NextTail == WriteChar \/ LoopTest \/ Refresh \/ ReadChars \/ LoopWait

SpecTail == InitTail /\ [][NextTail]_vars

\* C28: the watcher passes only complete lines to the parser: a trailing line
\* not yet ended by a newline is not passed on, and the read offset does not
\* move past it
CompleteLinesOnly ==
    /\ \A i \in DOMAIN callbacks : callbacks[i].line[Len(callbacks[i].line)] = "\n"
    /\ tailer.fp # None /\ tailer.position > 0 =>
          logFiles.files[tailer.fp].lines[tailer.position] = "\n"

\* an unterminated trailing line was in the file during a read and has been
\* completed since: the parser was handed its first part
CompleteLinesWitness ==
    /\ logFiles.files["A"].lines = <<"x", "x", "\n">>
    /\ tailer.position = 3
    /\ Len(callbacks) = 2

====
